---- MODULE Spec2Model ----
(***************************************************************************)
(* Name-variation generator of neurons/main/_name.py as a state machine.   *)
(*                                                                         *)
(* A string is a sequence of Unicode code points, so that str.lower(),     *)
(* str.split(), slicing and the regular-expression ranges of detect_script *)
(* are computed on the characters themselves.  A float score is the exact  *)
(* rational [n, d] (n/d); comparisons are cross-multiplied.                *)
(***************************************************************************)
EXTENDS Integers, Sequences, FiniteSets, TLC

(***************************************************************************)
(* Characters and Python string primitives                                 *)
(***************************************************************************)
SPACE == 32

IsUpperC(c) == c >= 65 /\ c <= 90

IsLowerC(c) == c >= 97 /\ c <= 122

\* str.isalpha() on one character, for the characters of the model's names
IsAlphaC(c) == IsUpperC(c) \/ IsLowerC(c) \/ c >= 1024

\* the Kelvin sign: a letter outside ASCII whose lower case is the ASCII "k"
KELVIN == 8490

LowerC(c) == IF IsUpperC(c) THEN c + 32 ELSE IF c = KELVIN THEN 107 ELSE c

\* str.isupper() on one character
IsUpperStr(c) == IsUpperC(c) \/ c = KELVIN

UpperC(c) == IF IsLowerC(c) THEN c - 32 ELSE c

\* str.lower()
Lower(s) == [i \in 1..Len(s) |-> LowerC(s[i])]

\* str.upper()
Upper(s) == [i \in 1..Len(s) |-> UpperC(s[i])]

\* c in 'aeiou'
IsVowelLC(c) == c \in {97, 101, 105, 111, 117}

Min2(a, b) == IF a <= b THEN a ELSE b

Max2(a, b) == IF a >= b THEN a ELSE b

\* s[a:b] with 0-based Python bounds already clipped by the caller
Slice(s, a, b) == IF b <= a THEN <<>> ELSE SubSeq(s, a + 1, b)

RECURSIVE SplitFrom(_, _, _, _)
SplitFrom(s, i, cur, acc) ==
    IF i > Len(s)
    THEN IF cur = <<>> THEN acc ELSE Append(acc, cur)
    ELSE IF s[i] = SPACE
         THEN SplitFrom(s, i + 1, <<>>, IF cur = <<>> THEN acc ELSE Append(acc, cur))
         ELSE SplitFrom(s, i + 1, Append(cur, s[i]), acc)

\* str.split(): split on runs of whitespace, no empty parts
Split(s) == SplitFrom(s, 1, <<>>, <<>>)

RECURSIVE JoinFrom(_, _, _)
JoinFrom(sep, parts, i) ==
    IF i > Len(parts) THEN <<>>
    ELSE IF i = Len(parts) THEN parts[i]
    ELSE parts[i] \o sep \o JoinFrom(sep, parts, i + 1)

\* sep.join(parts)
Join(sep, parts) == JoinFrom(sep, parts, 1)

\* parts[::-1]
Reverse(s) == [i \in 1..Len(s) |-> s[Len(s) + 1 - i]]

RECURSIVE SumSeq(_, _)
SumSeq(s, i) == IF i > Len(s) THEN 0 ELSE s[i] + SumSeq(s, i + 1)

\* the elements of a sequence
Range(s) == {s[i] : i \in 1..Len(s)}

\* [x for x in s if P(x)]
RECURSIVE Filter(_, _, _)
Filter(s, P(_), i) ==
    IF i > Len(s) THEN <<>>
    ELSE (IF P(s[i]) THEN <<s[i]>> ELSE <<>>) \o Filter(s, P, i + 1)

(***************************************************************************)
(* The jellyfish package: Levenshtein distance and the three phonetic      *)
(* encoders.  The encoders follow the package's algorithms for the         *)
(* characters that occur in the model's names: vowels, b d f j l m n r v   *)
(* q z, the space and punctuation.  Letters whose Metaphone or NYSIIS      *)
(* rules depend on context (c g h k p s t w x y) occur in no name here.    *)
(***************************************************************************)
Min3(a, b, c) == Min2(a, Min2(b, c))

RECURSIVE LevRow(_, _, _, _, _)
LevRow(prev, ch, b, cur, c) ==
    IF c > Len(b) THEN cur
    ELSE LevRow(prev, ch, b,
                Append(cur, Min3(prev[c + 1] + 1, cur[c] + 1,
                                 prev[c] + (IF ch = b[c] THEN 0 ELSE 1))),
                c + 1)

RECURSIVE LevRows(_, _, _, _)
LevRows(a, b, prev, r) ==
    IF r > Len(a) THEN prev[Len(b) + 1]
    ELSE LET row == LevRow(prev, a[r], b, <<r>>, 1)
         IN  IF Len(row) = Len(b) + 1 THEN LevRows(a, b, row, r + 1) ELSE -1

\* jellyfish.levenshtein_distance(a, b)
levenshtein_distance(a, b) == LevRows(a, b, [c \in 1..(Len(b) + 1) |-> c - 1], 1)

\* Soundex digit of an upper-case letter, 0 for a letter without one
SoundexDigit(c) ==
    IF c \in {66, 70, 80, 86} THEN 49
    ELSE IF c \in {67, 71, 74, 75, 81, 83, 88, 90} THEN 50
    ELSE IF c \in {68, 84} THEN 51
    ELSE IF c = 76 THEN 52
    ELSE IF c \in {77, 78} THEN 53
    ELSE IF c = 82 THEN 54
    ELSE 0

RECURSIVE SoundexFrom(_, _, _, _, _)
SoundexFrom(s, i, result, count, last) ==
    IF i > Len(s) \/ count = 4
    THEN result \o [k \in 1..(4 - count) |-> 48]
    ELSE LET sub == SoundexDigit(s[i]) IN
         IF sub # 0
         THEN IF sub # last
              THEN SoundexFrom(s, i + 1, Append(result, sub), count + 1, sub)
              ELSE SoundexFrom(s, i + 1, result, count, sub)
         ELSE SoundexFrom(s, i + 1, result, count,
                          IF s[i] \in {72, 87} THEN last ELSE 0)

SoundexUpper(u) == SoundexFrom(u, 2, <<u[1]>>, 1, SoundexDigit(u[1]))

\* jellyfish.soundex(s)
soundex(s) == IF s = <<>> THEN <<>> ELSE SoundexUpper(Upper(s))

\* the Metaphone code of a lower-case consonant that maps to one letter
MetaphoneLetter(c) ==
    IF c = 100 THEN 116
    ELSE IF c = 118 THEN 102
    ELSE IF c = 122 THEN 115
    ELSE IF c = 113 THEN 107
    ELSE c

RECURSIVE MetaphoneFrom(_, _, _)
MetaphoneFrom(s, i, result) ==
    IF i > Len(s) THEN result
    ELSE LET c == s[i] IN
         IF i < Len(s) /\ c = s[i + 1] /\ c # 99
         THEN MetaphoneFrom(s, i + 1, result)
         ELSE IF IsVowelLC(c)
         THEN MetaphoneFrom(s, i + 1,
                  IF i = 1 \/ s[i - 1] = SPACE THEN Append(result, c) ELSE result)
         ELSE IF IsLowerC(c)
         THEN MetaphoneFrom(s, i + 1, Append(result, MetaphoneLetter(c)))
         ELSE IF c = SPACE
         THEN MetaphoneFrom(s, i + 1,
                  IF Len(result) > 0 /\ result[Len(result)] # SPACE
                  THEN Append(result, SPACE) ELSE result)
         ELSE MetaphoneFrom(s, i + 1, result)

\* an initial "ae" loses its first letter
MetaphoneStart(l) == IF Len(l) >= 2 /\ l[1] = 97 /\ l[2] = 101 THEN Tail(l) ELSE l

\* jellyfish.metaphone(s)
metaphone(s) == Upper(MetaphoneFrom(MetaphoneStart(Lower(s)), 1, <<>>))

\* the key character of s[i], given that s[i..i+1] is or is not "EV"
NysiisChar(c, ev) ==
    IF ev THEN 70
    ELSE IF IsVowelLC(LowerC(c)) THEN 65
    ELSE IF c = 81 THEN 71
    ELSE IF c = 90 THEN 83
    ELSE IF c = 77 THEN 78
    ELSE c

NysiisAppend(key, ch, ev) ==
    IF ev /\ key[Len(key)] # 70 THEN key \o <<65, 70>>
    ELSE IF ~ev /\ key[Len(key)] # ch THEN Append(key, ch)
    ELSE key

NysiisIsEV(s, i) == s[i] = 69 /\ i + 1 <= Len(s) /\ s[i + 1] = 86

RECURSIVE NysiisFrom(_, _, _)
NysiisFrom(s, i, key) ==
    IF i > Len(s) THEN key
    ELSE NysiisFrom(s, IF NysiisIsEV(s, i) THEN i + 2 ELSE i + 1,
                    NysiisAppend(key, NysiisChar(s[i], NysiisIsEV(s, i)), NysiisIsEV(s, i)))

EndsWith(s, suf) == Len(s) >= Len(suf) /\ SubSeq(s, Len(s) - Len(suf) + 1, Len(s)) = suf

DropLast(s, k) == SubSeq(s, 1, Len(s) - k)

\* the suffix rewrites before the key is built
NysiisSuffix(u) ==
    IF EndsWith(u, <<73, 69>>) \/ EndsWith(u, <<69, 69>>) THEN Append(DropLast(u, 2), 89)
    ELSE IF EndsWith(u, <<82, 68>>) \/ EndsWith(u, <<78, 68>>) THEN Append(DropLast(u, 2), 68)
    ELSE u

NysiisKey(s2) == NysiisFrom(s2, 2, <<s2[1]>>)

\* the three rewrites of the end of the key
NysiisDropS(k) == IF EndsWith(k, <<83>>) /\ k # <<83>> THEN DropLast(k, 1) ELSE k

NysiisAY(k) == IF EndsWith(k, <<65, 89>>) THEN Append(DropLast(k, 2), 89) ELSE k

NysiisDropA(k) == IF EndsWith(k, <<65>>) /\ k # <<65>> THEN DropLast(k, 1) ELSE k

\* jellyfish.nysiis(s)
nysiis(s) ==
    IF s = <<>> THEN <<>>
    ELSE NysiisDropA(NysiisAY(NysiisDropS(NysiisKey(NysiisSuffix(Upper(s))))))

(***************************************************************************)
(* State                                                                   *)
(***************************************************************************)
VARIABLES
    original_name,            \* the seed
    variation_count,          \* total_count
    rule_pct,                 \* rule_percentage, in percent
    rules,                    \* the caller's rule list
    phonetic_similarity,      \* distribution argument, see NoDist and Dist
    orthographic_similarity,
    jelly,                    \* JELLYFISH_AVAILABLE
    unidecode_ok,             \* UNIDECODE_AVAILABLE
    salt,                     \* the process's string-hash salt
    rng,                      \* the shared random source
    pc,                       \* position in generate_name_variations_clean
    rule_based_count,
    non_rule_count,
    variations,
    used_variations,
    slot,                     \* i of the rule loop
    rule,
    attempts,
    max_attempts,
    var,
    rule_attempts,
    tpc,                      \* position in generate_tiered_name_variations
    candidate_pool,
    candidates_with_scores,
    selected,
    used,
    cursor,                   \* index of the running for loop
    non_rule_vars,
    pool_calls,               \* calls of the pool source made so far
    result,
    identity,                 \* synapse.identity of generate_variations
    uav_seed_name,            \* requirements['uav_seed_name']
    all_variations,           \* the dictionary generate_variations builds
    processed,                \* identities the loop of generate_variations has done
    generated                 \* what the three generators returned for the last of them

vars == <<original_name, variation_count, rule_pct, rules, phonetic_similarity,
          orthographic_similarity, jelly, unidecode_ok, salt, rng, pc, rule_based_count,
          non_rule_count, variations, used_variations, slot, rule, attempts,
          max_attempts, var, rule_attempts, tpc, candidate_pool, candidates_with_scores, selected,
          used, cursor, non_rule_vars, pool_calls, result, identity, uav_seed_name,
          all_variations, processed, generated>>

\* Python's None, where a string is expected
None == <<-1>>

Tiers == {"Light", "Medium", "Far"}

(***************************************************************************)
(* Similarity scorer                                                       *)
(***************************************************************************)
\* the values hash(original) % 10000 takes on the model's strings
HashVals == <<1, 3>>

\* hash(original) % 10000: fixed for a string within a process, salted per process
strHash(s) == HashVals[((salt + SumSeq(s, 1)) % Len(HashVals)) + 1]

\* random.seed(h); random.sample(algorithms, 3); three random.random():
\* the weight drawn for each algorithm, times 10^4
PhoneticWeights(h) ==
    IF h = 1 THEN [soundex |-> 1179, nysiis |-> 7610, metaphone |-> 4722]
    ELSE [soundex |-> 9159, nysiis |-> 4741, metaphone |-> 5809]

\* the random source right after a phonetic score with this first argument
Reseeded(original) == [seed |-> strHash(original), clean |-> TRUE]

\* the random source after any other draw
Drawn(r) == [seed |-> r.seed, clean |-> FALSE]

Half == [n |-> 1, d |-> 2]

\* the sum of the weights of the algorithms whose codes agree, over the total
WeightedMatch(w, original, variation) ==
    [n |-> (IF soundex(original) = soundex(variation) THEN w.soundex ELSE 0)
         + (IF metaphone(original) = metaphone(variation) THEN w.metaphone ELSE 0)
         + (IF nysiis(original) = nysiis(variation) THEN w.nysiis ELSE 0),
     d |-> w.soundex + w.metaphone + w.nysiis]

\* the reseeding dropped: the weights follow the state the random source is in
selected_weights_unseeded(r, original) == PhoneticWeights(IF r.clean THEN HashVals[1] ELSE HashVals[2])

\* random.seed(hash(original) % 10000) comes first: the algorithms sampled and
\* the weights drawn do not depend on the state r the random source was in
selected_weights(r, original) == PhoneticWeights(strHash(original))

calculate_phonetic_similarity_score(original, variation) ==
    IF ~jelly THEN Half
    ELSE WeightedMatch(selected_weights(rng, original), original, variation)

\* 1.0 - distance / max_len
DistanceScore(distance, max_len) ==
    IF max_len = 0 THEN [n |-> 1, d |-> 1] ELSE [n |-> max_len - distance, d |-> max_len]

calculate_orthographic_similarity_score(original, variation) ==
    IF ~jelly THEN Half
    ELSE DistanceScore(levenshtein_distance(Lower(original), Lower(variation)),
                       Max2(Len(original), Len(variation)))

\* score >= a/100
ScoreGE(score, a) == score.n * 100 >= a * score.d

\* the phonetic classifier with exclusive lower bounds
get_phonetic_tier_exclusive(score) ==
    IF ~ScoreGE(score, 80) \/ score.n * 100 = 80 * score.d
    THEN IF ~ScoreGE(score, 60) \/ score.n * 100 = 60 * score.d THEN "Far" ELSE "Medium"
    ELSE "Light"

get_phonetic_tier_from_score(score) ==
    IF ScoreGE(score, 80) THEN "Light"
    ELSE IF ScoreGE(score, 60) THEN "Medium"
    ELSE IF ScoreGE(score, 30) THEN "Far"
    ELSE "Far"

get_orthographic_tier_from_score(score) ==
    IF ScoreGE(score, 70) THEN "Light"
    ELSE IF ScoreGE(score, 50) THEN "Medium"
    ELSE IF ScoreGE(score, 20) THEN "Far"
    ELSE "Far"

get_metaphone_match_score(original, candidate) ==
    get_phonetic_tier_from_score(calculate_phonetic_similarity_score(original, candidate))

get_levenshtein_tier(original, candidate) ==
    get_orthographic_tier_from_score(calculate_orthographic_similarity_score(original, candidate))

\* the threshold itself counted as too similar
Above99Inclusive(p, o) == 70 * p.n * o.d + 30 * o.n * p.d >= 99 * p.d * o.d

\* phonetic_sim * 0.7 + orthographic_sim * 0.3 > 0.99
Above99(p, o) == 70 * p.n * o.d + 30 * o.n * p.d > 99 * p.d * o.d

CombinedAbove99(existing, candidate) ==
    Above99(calculate_phonetic_similarity_score(existing, candidate),
            calculate_orthographic_similarity_score(existing, candidate))

\* the is_unique loops: no element of sel is too similar to the candidate
IsUniqueAgainst(sel, candidate) ==
    \A k \in 1..Len(sel) : ~CombinedAbove99(sel[k], candidate)

(***************************************************************************)
(* Rule engine.  A rule that draws from the random source is the set of    *)
(* strings it can return.                                                  *)
(***************************************************************************)
DeleteAt(s, i) == SubSeq(s, 1, i - 1) \o SubSeq(s, i + 1, Len(s))

\* s[:i] + <<c>> + s[i:]
InsertAt(s, i, c) == SubSeq(s, 1, i) \o <<c>> \o SubSeq(s, i + 1, Len(s))

ReplaceAt(s, i, c) == [s EXCEPT ![i] = c]

\* name[:idx] + name[idx+1] + name[idx] + name[idx+2:], i = idx + 1
SwapAt(s, i) == [s EXCEPT ![i] = s[i + 1], ![i + 1] = s[i]]

IsConsonantC(c) == IsAlphaC(c) /\ ~IsVowelLC(LowerC(c))

\* the rearrangements of a sequence
Perms(s) ==
    {[i \in 1..Len(s) |-> s[f[i]]] :
        f \in {g \in [1..Len(s) -> 1..Len(s)] : \A a, b \in 1..Len(s) : g[a] = g[b] => a = b}}

SpecialChars == {95, 45, 64, 46}

apply_replace_spaces_with_special_chars(name) ==
    IF SPACE \notin Range(name) THEN {name}
    ELSE {[i \in 1..Len(name) |-> IF name[i] = SPACE THEN ch ELSE name[i]] : ch \in SpecialChars}

apply_delete_random_letter(name) ==
    IF Len(name) <= 1 THEN {name}
    ELSE {DeleteAt(name, i) : i \in 1..Len(name)}

apply_replace_double_letters(name) ==
    LET hits == {i \in 1..(Len(name) - 1) :
                    LowerC(name[i]) = LowerC(name[i + 1]) /\ IsAlphaC(name[i])}
    IN  IF hits = {} THEN {name}
        ELSE LET i == CHOOSE j \in hits : \A k \in hits : j <= k
             IN  {DeleteAt(name, i + 1)}

apply_swap_adjacent_consonants(name) ==
    LET hits == {i \in 1..(Len(name) - 1) :
                    /\ IsConsonantC(LowerC(name[i]))
                    /\ IsConsonantC(LowerC(name[i + 1]))
                    /\ LowerC(name[i]) # LowerC(name[i + 1])}
    IN  IF hits = {} THEN {name}
        ELSE LET i == CHOOSE j \in hits : \A k \in hits : j <= k
             IN  {SwapAt(name, i)}

apply_swap_adjacent_syllables(name) ==
    LET parts == Split(name) IN
    IF Len(parts) >= 2
    THEN {Join(<<SPACE>>, <<parts[Len(parts)]>> \o SubSeq(parts, 2, Len(parts) - 1)
                          \o <<parts[1]>>)}
    ELSE IF Len(parts) = 1 /\ Len(parts[1]) \div 2 > 0
    THEN LET word == parts[1]
             mid  == Len(word) \div 2
         IN  {Slice(word, mid, Len(word)) \o Slice(word, 0, mid)}
    ELSE {name}

TitleSuffixes ==
    {<<74, 114, 46>>, <<83, 114, 46>>, <<80, 104, 68>>, <<77, 68>>, <<73, 73, 73>>,
     <<73, 73>>, <<69, 115, 113, 46>>}

apply_add_title_suffix(name) == {name \o <<SPACE>> \o t : t \in TitleSuffixes}

apply_abbreviate_name_parts(name) ==
    LET parts == Split(name) IN
    IF Len(parts) >= 2 \/ (Len(parts) = 1 /\ Len(parts[1]) > 1)
    THEN {Join(<<SPACE>>, [parts EXCEPT ![1] = <<parts[1][1], 46>>])}
    ELSE {Join(<<SPACE>>, parts)}

\* random.choice(vowels[c]): the other vowels of the same case
OtherVowels(c) ==
    IF IsUpperC(c) THEN {65, 69, 73, 79, 85} \ {c} ELSE {97, 101, 105, 111, 117} \ {c}

apply_replace_random_vowels(name) ==
    LET vowel_indices == {i \in 1..Len(name) : IsVowelLC(LowerC(name[i]))}
        one == UNION {{ReplaceAt(name, i, v) : v \in OtherVowels(name[i])} :
                      i \in vowel_indices}
        two == UNION {{[name EXCEPT ![ij[1]] = v, ![ij[2]] = w] :
                          v \in OtherVowels(name[ij[1]]), w \in OtherVowels(name[ij[2]])} :
                      ij \in {x \in vowel_indices \X vowel_indices : x[1] # x[2]}}
    IN  IF vowel_indices = {} THEN {name} ELSE one \cup two

apply_remove_all_spaces(name) == {Filter(name, LAMBDA c : c # SPACE, 1)}

apply_reorder_name_parts(name) ==
    LET parts == Split(name) IN
    IF Len(parts) >= 2 THEN {Join(<<SPACE>>, q) : q \in Perms(parts)}
    ELSE IF Len(parts) = 1 THEN {Reverse(parts[1])}
    ELSE {name}

ConsonantKeys ==
    {98, 99, 100, 102, 103, 104, 106, 107, 108, 109, 110, 112, 113, 114, 115, 116,
     118, 119, 120, 122}

\* the character that stands for a KeyError: a result holding it is the
\* exception leaving the call
KeyErrorMark == -2

Raises(s) == \E i \in 1..Len(s) : s[i] = KeyErrorMark

\* random.choice(consonants[...]) for the character c of the name: the test is
\* on char.lower(), the key looked up is char.lower() for a lower-case
\* character and char.upper() for any other
OtherConsonants(c) ==
    IF LowerC(c) \notin ConsonantKeys THEN {c}
    ELSE IF IsLowerC(c) THEN ConsonantKeys \ {LowerC(c)}
    ELSE IF UpperC(c) \in {UpperC(k) : k \in ConsonantKeys}
    THEN {UpperC(k) : k \in ConsonantKeys \ {LowerC(c)}}
    ELSE {KeyErrorMark}

apply_replace_random_consonants(name) ==
    LET consonant_indices == {i \in 1..Len(name) : IsConsonantC(name[i])}
        one == UNION {{ReplaceAt(name, i, v) : v \in OtherConsonants(name[i])} :
                      i \in consonant_indices}
        two == UNION {{[name EXCEPT ![ij[1]] = v, ![ij[2]] = w] :
                          v \in OtherConsonants(name[ij[1]]), w \in OtherConsonants(name[ij[2]])} :
                      ij \in {x \in consonant_indices \X consonant_indices : x[1] # x[2]}}
    IN  IF consonant_indices = {} THEN {name} ELSE one \cup two

apply_swap_random_letter(name) ==
    LET swap_candidates == {i \in 1..(Len(name) - 1) :
                               /\ IsAlphaC(name[i]) /\ IsAlphaC(name[i + 1])
                               /\ LowerC(name[i]) # LowerC(name[i + 1])}
    IN  IF Len(name) < 2 \/ swap_candidates = {} THEN {name}
        ELSE {SwapAt(name, i) : i \in swap_candidates}

apply_remove_random_vowel(name) ==
    LET vowel_indices == {i \in 1..Len(name) : IsVowelLC(LowerC(name[i]))}
    IN  IF vowel_indices = {} THEN {name} ELSE {DeleteAt(name, i) : i \in vowel_indices}

apply_remove_random_consonant(name) ==
    LET consonant_indices == {i \in 1..Len(name) : IsConsonantC(name[i])}
    IN  IF consonant_indices = {} THEN {name}
        ELSE {DeleteAt(name, i) : i \in consonant_indices}

apply_duplicate_random_letter(name) ==
    LET letter_indices == {i \in 1..Len(name) : IsAlphaC(name[i])}
    IN  IF letter_indices = {} THEN {name}
        ELSE {InsertAt(name, i, name[i]) : i \in letter_indices}

LowerLetters == 97..122

apply_insert_random_letter(name) ==
    IF Len(name) = 0 THEN {<<c>> : c \in LowerLetters}
    ELSE {InsertAt(name, idx, IF idx > 0 /\ IsUpperStr(name[idx]) THEN UpperC(c) ELSE c) :
             idx \in 0..Len(name), c \in LowerLetters}

TitlePrefixes ==
    {<<77, 114, 46>>, <<77, 114, 115, 46>>, <<77, 115, 46>>, <<68, 114, 46>>,
     <<80, 114, 111, 102, 46>>, <<82, 101, 118, 46>>, <<83, 105, 114>>, <<76, 97, 100, 121>>}

apply_add_title_prefix(name) == {t \o <<SPACE>> \o name : t \in TitlePrefixes}

apply_initial_only_first_name(name) ==
    LET parts == Split(name) IN
    IF Len(parts) >= 2 THEN {Join(<<SPACE>>, [parts EXCEPT ![1] = <<parts[1][1], 46>>])}
    ELSE IF Len(parts) = 1 /\ Len(parts[1]) > 1 THEN {<<parts[1][1], 46>>}
    ELSE {name}

apply_shorten_to_initials(name) ==
    LET parts == Split(name) IN
    IF Len(parts) >= 2 THEN {Join(<<SPACE>>, [i \in 1..Len(parts) |-> <<parts[i][1], 46>>])}
    ELSE IF Len(parts) = 1 /\ Len(parts[1]) > 1 THEN {<<parts[1][1], 46>>}
    ELSE {name}

\* the keys of rule_map
RuleCatalog ==
    {"replace_spaces_with_special_characters", "replace_double_letters",
     "replace_random_vowels", "replace_random_consonants", "swap_adjacent_consonants",
     "swap_adjacent_syllables", "swap_random_letter", "delete_random_letter",
     "remove_random_vowel", "remove_random_consonant", "remove_all_spaces",
     "duplicate_random_letter", "insert_random_letter", "add_title_prefix",
     "add_title_suffix", "initial_only_first_name", "shorten_to_initials",
     "abbreviate_name_parts", "reorder_name_parts",
     "replace_spaces_with_random_special_characters",
     "replace_double_letters_with_single_letter",
     "replace_random_vowel_with_random_vowel",
     "replace_random_consonant_with_random_consonant",
     "duplicate_random_letter_as_double_letter", "add_random_leading_title",
     "add_random_trailing_title", "shorten_name_to_initials",
     "shorten_name_to_abbreviations", "name_parts_permutations"}

\* rule_map[rule] in place of rule_map.get(rule): a rule that is no key raises
no_func_raises(name) == {<<KeyErrorMark>>}

\* "func(name) if func else name" for a rule that is no key of rule_map
no_func(name) == {name}

\* apply_rule_to_name(name, rule): the strings the call can return
apply_rule_to_name(name, r) ==
    IF r \in {"replace_spaces_with_special_characters",
              "replace_spaces_with_random_special_characters"}
    THEN apply_replace_spaces_with_special_chars(name)
    ELSE IF r \in {"replace_double_letters", "replace_double_letters_with_single_letter"}
    THEN apply_replace_double_letters(name)
    ELSE IF r \in {"replace_random_vowels", "replace_random_vowel_with_random_vowel"}
    THEN apply_replace_random_vowels(name)
    ELSE IF r \in {"replace_random_consonants",
                   "replace_random_consonant_with_random_consonant"}
    THEN apply_replace_random_consonants(name)
    ELSE IF r = "swap_adjacent_consonants" THEN apply_swap_adjacent_consonants(name)
    ELSE IF r = "swap_adjacent_syllables" THEN apply_swap_adjacent_syllables(name)
    ELSE IF r = "swap_random_letter" THEN apply_swap_random_letter(name)
    ELSE IF r = "delete_random_letter" THEN apply_delete_random_letter(name)
    ELSE IF r = "remove_random_vowel" THEN apply_remove_random_vowel(name)
    ELSE IF r = "remove_random_consonant" THEN apply_remove_random_consonant(name)
    ELSE IF r = "remove_all_spaces" THEN apply_remove_all_spaces(name)
    ELSE IF r \in {"duplicate_random_letter", "duplicate_random_letter_as_double_letter"}
    THEN apply_duplicate_random_letter(name)
    ELSE IF r = "insert_random_letter" THEN apply_insert_random_letter(name)
    ELSE IF r \in {"add_title_prefix", "add_random_leading_title"}
    THEN apply_add_title_prefix(name)
    ELSE IF r \in {"add_title_suffix", "add_random_trailing_title"}
    THEN apply_add_title_suffix(name)
    ELSE IF r = "initial_only_first_name" THEN apply_initial_only_first_name(name)
    ELSE IF r \in {"shorten_to_initials", "shorten_name_to_initials"}
    THEN apply_shorten_to_initials(name)
    ELSE IF r \in {"abbreviate_name_parts", "shorten_name_to_abbreviations"}
    THEN apply_abbreviate_name_parts(name)
    ELSE IF r \in {"reorder_name_parts", "name_parts_permutations"}
    THEN apply_reorder_name_parts(name)
    ELSE no_func(name)

(***************************************************************************)
(* Inputs and the candidate-pool source                                    *)
(***************************************************************************)
\* largest variation_count of a request
MaxCount == 3

\* variation_count of the requests for "Laureano", answered by UniformPool
UniformCount == 9

\* "a", "jo", "Al Bo"
SeedA == <<97>>

SeedJo == <<106, 111>>

SeedAlBo == <<65, 108, 32, 66, 111>>

\* "Annabella Dellarobbia Valladolid": long enough for two strings one edit
\* apart to have a combined similarity above 0.99
SeedLong == <<65, 110, 110, 97, 98, 101, 108, 108, 97, 32, 68, 101,
             108, 108, 97, 114, 111, 98, 98, 105, 97, 32, 86, 97, 108, 108, 97, 100, 111, 108, 105, 100>>

\* "Laureano"
SeedLaureano == <<76, 97, 117, 114, 101, 97, 110, 111>>

\* two CJK names, of one and of two parts
SeedLiNa == <<26446, 23068>>

SeedLiNaParts == <<26446, 32, 23068>>

LatinSeeds == {<<>>, SeedA, SeedJo, SeedAlBo}

Seeds == LatinSeeds \cup {SeedLong, SeedLaureano, SeedLiNa, SeedLiNaParts}

RulePcts == {0, 50, 100}

RuleLists ==
    {<<>>, <<"swap_random_letter">>, <<"replace_double_letters", "remove_all_spaces">>}

\* a distribution argument: given = FALSE is None, d maps tiers to percent
NoDist == [given |-> FALSE, d |-> <<>>]

Dist(f) == [given |-> TRUE, d |-> f]

PhoneticDists == {NoDist, Dist([t \in {"Light"} |-> 100])}

OrthographicDists == {NoDist, Dist([t \in {"Far"} |-> 100])}

\* the test of the distributions dropped: every request counts as one with a distribution
TruthyAlways(dist) == TRUE

\* "if phonetic_similarity": neither None nor an empty dict
Truthy(dist) == dist.given /\ DOMAIN dist.d # {}

\* dist.get(tier, 0.0)
DistGet(dist, tier) == IF tier \in DOMAIN dist.d THEN dist.d[tier] ELSE 0

\* candidate strings the pool source derives from a name
Typo1(name) == Append(name, IF name = <<>> THEN 97 ELSE name[Len(name)])

Typo2(name) == Typo1(Typo1(name))

Typo3(name) == <<98>> \o name

\* what the pool source may answer for a name, before the limit is applied:
\* nothing, only the seed, case-variant duplicates, or typos with the seed
\* ninety respellings of "Laureano", ten in each combination of a phonetic
\* and an orthographic tier
UniformPool ==
    <<
      <<76, 97, 117, 114, 97, 97, 110, 111>>,
      <<82, 117, 97, 114, 101, 97, 110, 117>>,
      <<76, 97, 111, 114, 111, 101, 110, 97>>,
      <<76, 97, 117, 114, 101, 97, 109, 111>>,
      <<76, 111, 101, 114, 97, 101, 110, 117>>,
      <<76, 105, 111, 114, 105, 101, 110, 101>>,
      <<76, 111, 111, 114, 117, 97, 110, 105>>,
      <<76, 97, 105, 114, 101, 117, 109, 97>>,
      <<82, 117, 105, 114, 105, 97, 110, 111>>,
      <<76, 117, 111, 114, 117, 117, 110, 97>>,
      <<82, 111, 97, 114, 101, 97, 110, 101>>,
      <<82, 101, 105, 114, 117, 97, 110, 111>>,
      <<76, 111, 117, 114, 105, 117, 110, 97>>,
      <<76, 97, 97, 114, 101, 105, 109, 111>>,
      <<82, 97, 117, 114, 97, 97, 110, 111>>,
      <<76, 97, 117, 114, 101, 97, 109, 117>>,
      <<76, 111, 105, 114, 105, 105, 110, 105>>,
      <<76, 117, 97, 114, 97, 117, 110, 117>>,
      <<82, 101, 117, 114, 101, 117, 110, 105>>,
      <<82, 117, 101, 114, 111, 111, 110, 117>>,
      <<76, 101, 117, 114, 101, 101, 109, 101>>,
      <<76, 111, 117, 114, 101, 101, 110, 105>>,
      <<82, 117, 117, 114, 105, 117, 110, 105>>,
      <<76, 105, 101, 114, 101, 105, 110, 111>>,
      <<76, 97, 105, 114, 101, 97, 109, 111>>,
      <<82, 101, 117, 114, 101, 105, 110, 105>>,
      <<76, 111, 111, 114, 101, 97, 109, 117>>,
      <<82, 101, 111, 114, 105, 117, 110, 105>>,
      <<76, 101, 117, 114, 101, 105, 110, 111>>,
      <<76, 117, 101, 114, 111, 105, 110, 97>>,
      <<76, 111, 101, 114, 97, 101, 110, 97>>,
      <<82, 117, 97, 114, 111, 111, 110, 101>>,
      <<82, 101, 117, 114, 111, 97, 110, 117>>,
      <<76, 101, 117, 114, 101, 97, 109, 111>>,
      <<76, 97, 97, 114, 101, 111, 110, 101>>,
      <<76, 97, 117, 114, 105, 105, 109, 105>>,
      <<76, 97, 117, 114, 101, 97, 109, 97>>,
      <<82, 117, 105, 114, 111, 97, 110, 111>>,
      <<76, 101, 117, 114, 101, 97, 110, 101>>,
      <<82, 97, 97, 114, 101, 97, 110, 111>>,
      <<82, 97, 101, 114, 105, 97, 110, 111>>,
      <<82, 117, 101, 114, 101, 111, 110, 117>>,
      <<76, 101, 101, 114, 101, 97, 110, 111>>,
      <<76, 111, 101, 114, 101, 101, 109, 97>>,
      <<76, 111, 111, 114, 101, 117, 109, 111>>,
      <<76, 97, 111, 114, 101, 101, 109, 111>>,
      <<82, 111, 97, 114, 117, 97, 110, 117>>,
      <<76, 111, 101, 114, 111, 97, 109, 111>>,
      <<76, 111, 101, 114, 111, 111, 109, 111>>,
      <<76, 111, 117, 114, 111, 105, 109, 105>>,
      <<82, 105, 101, 114, 111, 111, 110, 117>>,
      <<76, 117, 117, 114, 111, 117, 110, 111>>,
      <<76, 97, 105, 114, 101, 101, 110, 111>>,
      <<82, 111, 105, 114, 105, 111, 110, 97>>,
      <<76, 101, 97, 114, 101, 117, 110, 101>>,
      <<76, 101, 111, 114, 97, 101, 110, 105>>,
      <<76, 111, 101, 114, 105, 105, 110, 117>>,
      <<82, 117, 117, 114, 101, 97, 110, 111>>,
      <<76, 97, 117, 114, 117, 97, 109, 111>>,
      <<76, 111, 101, 114, 97, 105, 109, 97>>,
      <<82, 97, 117, 114, 101, 97, 110, 111>>,
      <<82, 97, 117, 114, 117, 97, 110, 111>>,
      <<76, 101, 105, 114, 97, 117, 109, 111>>,
      <<76, 117, 105, 114, 97, 101, 109, 101>>,
      <<76, 97, 117, 114, 101, 117, 110, 105>>,
      <<76, 97, 97, 114, 101, 101, 110, 111>>,
      <<82, 105, 117, 114, 101, 97, 110, 111>>,
      <<82, 97, 117, 114, 105, 97, 110, 111>>,
      <<76, 105, 97, 114, 97, 101, 109, 105>>,
      <<76, 105, 117, 114, 101, 97, 110, 97>>,
      <<82, 117, 101, 114, 97, 117, 110, 97>>,
      <<76, 101, 117, 114, 101, 97, 110, 111>>,
      <<76, 97, 117, 114, 105, 97, 109, 111>>,
      <<76, 105, 111, 114, 111, 111, 109, 101>>,
      <<76, 111, 101, 114, 105, 101, 109, 117>>,
      <<76, 101, 117, 114, 111, 101, 109, 101>>,
      <<76, 105, 117, 114, 111, 117, 109, 111>>,
      <<76, 97, 101, 114, 101, 97, 109, 111>>,
      <<76, 97, 117, 114, 101, 117, 109, 111>>,
      <<76, 111, 117, 114, 117, 101, 110, 101>>,
      <<76, 101, 101, 114, 111, 111, 110, 97>>,
      <<82, 117, 111, 114, 105, 117, 110, 105>>,
      <<82, 97, 117, 114, 101, 97, 110, 101>>,
      <<82, 111, 117, 114, 101, 97, 110, 111>>,
      <<76, 97, 111, 114, 117, 105, 110, 97>>,
      <<76, 97, 97, 114, 111, 97, 109, 97>>,
      <<82, 111, 105, 114, 101, 97, 110, 111>>,
      <<76, 97, 97, 114, 101, 97, 109, 111>>,
      <<82, 97, 117, 114, 101, 97, 110, 97>>,
      <<76, 105, 117, 114, 101, 97, 110, 111>>
    >>

PoolScripts(name) ==
    {<<>>, <<name>>, <<Typo1(name), Upper(Typo1(name))>>,
     <<name, Typo1(name), Typo2(name), Typo3(name)>>}
    \cup (IF name = SeedLaureano THEN {UniformPool} ELSE {})

Take(s, k) == SubSeq(s, 1, Min2(Len(s), k))

\* generate_name_variations(name, limit=limit): the lists the call can return
PoolSource(name, limit) == {Take(p, limit) : p \in PoolScripts(name)}

(***************************************************************************)
(* generate_name_variations_clean: counts and the rule phase               *)
(***************************************************************************)
\* round(num / den) of Python 3: halves go to the even neighbour
PyRound(num, den) ==
    LET q == num \div den
        r == num % den
    IN  IF 2 * r < den THEN q
        ELSE IF 2 * r > den THEN q + 1
        ELSE IF q % 2 = 0 THEN q ELSE q + 1

RuleBasedCount(count, pct) ==
    LET rounded == Min2(PyRound(count * pct, 100), count)
    IN  IF count - rounded < 0 THEN count ELSE rounded

\* the non-rule share rounded on its own instead of taken as the rest
NonRuleCountRounded(count, pct) == PyRound(count * (100 - pct), 100)

NonRuleCount(count, pct) ==
    LET rounded == Min2(PyRound(count * pct, 100), count)
    IN  IF count - rounded < 0 THEN 0 ELSE count - rounded

InRanges(c, ranges) == \E r \in ranges : c >= r[1] /\ c <= r[2]

HasCharIn(name, ranges) == \E i \in 1..Len(name) : InRanges(name[i], ranges)

detect_script(name) ==
    IF HasCharIn(name, {<<1536, 1791>>, <<1872, 1919>>, <<2208, 2303>>,
                        <<64336, 65023>>, <<65136, 65279>>}) THEN "arabic"
    ELSE IF HasCharIn(name, {<<1024, 1279>>, <<1280, 1327>>, <<11744, 11775>>,
                             <<42560, 42655>>}) THEN "cyrillic"
    ELSE IF HasCharIn(name, {<<19968, 40959>>, <<12352, 12447>>, <<12448, 12543>>,
                             <<44032, 55215>>}) THEN "cjk"
    ELSE IF \E i \in 1..Len(name) : name[i] > 127 THEN "non-latin"
    ELSE "latin"

\* the script of the seed not looked at
ScriptUnchecked == FALSE

is_non_latin == detect_script(original_name) # "latin"

\* "if var": neither None nor the empty string
IsTruthy(v) == v # None /\ v # <<>>

\* the random source after an is_unique loop over sel: each iteration scores
\* (existing, candidate) and so reseeds from the existing element
RECURSIVE LastCompared(_, _, _)
LastCompared(sel, candidate, k) ==
    IF k >= Len(sel) THEN Len(sel)
    ELSE IF CombinedAbove99(sel[k], candidate) THEN k
    ELSE LastCompared(sel, candidate, k + 1)

AfterUniqueLoop(r, sel, candidate) ==
    IF ~jelly \/ sel = <<>> THEN r ELSE Reseeded(sel[LastCompared(sel, candidate, 1)])

\* the requests explored: every combination for the short Latin seeds; the
\* long seed with rules for one rule-based variation only; the long seed
\* otherwise, "Laureano" and the CJK seeds with an empty rule list, the
\* two-part CJK seed for at most one variation, "Laureano" for UniformCount
\* variations without rules
InputFamily(name, count, pct, rule_list, jellyfish_available, unidecode_available, hash_salt) ==
    /\ name \notin LatinSeeds \cup {SeedLong} => rule_list = <<>>
    /\ name = SeedLong /\ rule_list # <<>> => count = 1 /\ pct = 100
    /\ name = SeedLaureano <=> count = UniformCount
    /\ name = SeedLaureano => pct = 0
    /\ name \in {SeedLong, SeedLaureano} => jellyfish_available
    /\ detect_script(name) = "latin" => unidecode_available
    /\ detect_script(name) # "latin" => hash_salt = 0
    /\ name = SeedLiNaParts => count <= 1

Init ==
    /\ original_name \in Seeds
    /\ variation_count \in (0..MaxCount) \cup {UniformCount}
    /\ rule_pct \in RulePcts
    /\ rules \in RuleLists
    /\ phonetic_similarity \in PhoneticDists
    /\ orthographic_similarity \in OrthographicDists
    /\ jelly \in BOOLEAN
    /\ unidecode_ok \in BOOLEAN
    /\ salt \in 0..(Len(HashVals) - 1)
    /\ InputFamily(original_name, variation_count, rule_pct, rules, jelly, unidecode_ok,
                   salt)
    /\ rng = [seed |-> 0, clean |-> FALSE]
    /\ pc = "start"
    /\ rule_based_count = 0
    /\ non_rule_count = 0
    /\ variations = <<>>
    /\ used_variations = {}
    /\ slot = 0
    /\ rule = ""
    /\ attempts = 0
    /\ max_attempts = 0
    /\ var = None
    /\ rule_attempts = <<>>
    /\ tpc = "idle"
    /\ candidate_pool = <<>>
    /\ candidates_with_scores = <<>>
    /\ selected = <<>>
    /\ used = {}
    /\ cursor = 0
    /\ non_rule_vars = <<>>
    /\ pool_calls = <<>>
    /\ result = <<>>
    /\ identity = <<>>
    /\ uav_seed_name = None
    /\ all_variations = <<>>
    /\ processed = 0
    /\ generated = <<>>

selectorVars == <<tpc, candidate_pool, candidates_with_scores, selected, used, cursor>>

\* the state of generate_variations, the caller of the name generator
indexVars == <<identity, uav_seed_name, all_variations, processed, generated>>

inputVars == <<original_name, variation_count, rule_pct, rules, phonetic_similarity,
               orthographic_similarity, jelly, unidecode_ok, salt, indexVars>>

\* untouched before the last phase
lateVars == <<max_attempts, result>>

\* lines 41-60
Resolve ==
    /\ pc = "start"
    /\ rule_based_count' = RuleBasedCount(variation_count, rule_pct)
    /\ non_rule_count' = NonRuleCount(variation_count, rule_pct)
    /\ pc' = "rule_loop"
    /\ UNCHANGED <<inputVars, rng, variations, used_variations, slot, rule, attempts, var,
                   rule_attempts, selectorVars, non_rule_vars, pool_calls, lateVars>>

\* for i in range(rule_based_count): if rules: rule = random.choice(rules)
RuleSlot ==
    /\ pc = "rule_loop"
    /\ IF slot >= rule_based_count
       THEN /\ pc' = "non_rule"
            /\ UNCHANGED <<slot, rule, attempts, var, rng>>
       ELSE IF rules = <<>>
       THEN /\ slot' = slot + 1
            /\ UNCHANGED <<pc, rule, attempts, var, rng>>
       ELSE /\ \E r \in Range(rules) : rule' = r
            /\ attempts' = 0
            /\ var' = None
            /\ rng' = Drawn(rng)
            /\ pc' = "rule_while"
            /\ UNCHANGED slot
    /\ UNCHANGED <<inputVars, rule_based_count, non_rule_count, variations, used_variations,
                   rule_attempts, selectorVars, non_rule_vars, pool_calls, lateVars>>

\* rule_attempts[rule] += 1, after the default of 0
Bump(ra, r) == (r :> (IF r \in DOMAIN ra THEN ra[r] + 1 ELSE 1)) @@ ra

\* one iteration of "while attempts < 20" (lines 68-90)
RuleWhile ==
    /\ pc = "rule_while"
    /\ \E v \in apply_rule_to_name(original_name, rule) :
         /\ var' = v
         /\ IF Lower(v) \notin used_variations /\ v # original_name
            THEN /\ pc' = "rule_accept"
                 /\ UNCHANGED <<rule, attempts, rule_attempts>>
            ELSE LET ra == Bump(rule_attempts, rule)
                     other_rules == SelectSeq(rules, LAMBDA r : r # rule)
                 IN  IF ra[rule] > 5 /\ other_rules = <<>>
                     THEN /\ pc' = "rule_accept"
                          /\ rule_attempts' = ra
                          /\ UNCHANGED <<rule, attempts>>
                     ELSE /\ IF ra[rule] > 5
                             THEN \E r \in Range(other_rules) :
                                    /\ rule' = r
                                    /\ rule_attempts' = (r :> 0) @@ ra
                             ELSE /\ rule_attempts' = ra
                                  /\ UNCHANGED rule
                          /\ attempts' = attempts + 1
                          /\ pc' = IF attempts + 1 < 20 THEN "rule_while" ELSE "rule_accept"
    /\ rng' = Drawn(rng)
    /\ UNCHANGED <<inputVars, rule_based_count, non_rule_count, variations, used_variations,
                   slot, selectorVars, non_rule_vars, pool_calls, lateVars>>

\* the "for alt_rule in rules" loop (lines 111-129) from rules[k] on: the
\* strings it can append, None when it appends nothing
RECURSIVE AltRuleTry(_)
AltRuleTry(k) ==
    IF k > Len(rules) THEN {None}
    ELSE IF rules[k] = rule THEN AltRuleTry(k + 1)
    ELSE UNION {IF /\ Lower(v) \notin used_variations
                   /\ v # original_name
                   /\ IsUniqueAgainst(variations, v)
                THEN {v}
                ELSE AltRuleTry(k + 1) : v \in apply_rule_to_name(original_name, rules[k])}

\* lines 92-129, the end of one iteration of the rule loop
RuleAccept ==
    /\ pc = "rule_accept"
    /\ IF IsTruthy(var) /\ Lower(var) \notin used_variations /\ var # original_name
       THEN /\ IF IsUniqueAgainst(variations, var)
               THEN /\ variations' = Append(variations, var)
                    /\ used_variations' = used_variations \cup {Lower(var)}
               ELSE UNCHANGED <<variations, used_variations>>
            /\ rng' = AfterUniqueLoop(rng, variations, var)
       ELSE IF IsTruthy(var) /\ var = original_name /\ attempts < 20
       THEN /\ \E v \in AltRuleTry(1) :
                 IF v = None THEN UNCHANGED <<variations, used_variations>>
                 ELSE /\ variations' = Append(variations, v)
                      /\ used_variations' = used_variations \cup {Lower(v)}
            /\ rng' = Drawn(rng)
       ELSE UNCHANGED <<variations, used_variations, rng>>
    /\ slot' = slot + 1
    /\ pc' = "rule_loop"
    /\ UNCHANGED <<inputVars, rule_based_count, non_rule_count, rule, attempts, var,
                   rule_attempts, selectorVars, non_rule_vars, pool_calls, lateVars>>

(***************************************************************************)
(* The non-rule phase (lines 134-166)                                      *)
(***************************************************************************)
\* the merge loop without its membership test
RECURSIVE MergeIntoUnchecked(_, _, _, _)
MergeIntoUnchecked(list, usedSet, vs, k) ==
    IF k > Len(vs) \/ Len(list) >= variation_count THEN [list |-> list, used |-> usedSet]
    ELSE MergeIntoUnchecked(Append(list, vs[k]), usedSet \cup {Lower(vs[k])}, vs, k + 1)

\* the merge loop without its test of the length
RECURSIVE MergeIntoUnbounded(_, _, _, _)
MergeIntoUnbounded(list, usedSet, vs, k) ==
    IF k > Len(vs) THEN [list |-> list, used |-> usedSet]
    ELSE IF Lower(vs[k]) \notin usedSet
    THEN MergeIntoUnbounded(Append(list, vs[k]), usedSet \cup {Lower(vs[k])}, vs, k + 1)
    ELSE MergeIntoUnbounded(list, usedSet, vs, k + 1)

\* "for var in vs: if len(variations) >= variation_count: break;
\*  if var.lower() not in used_variations: append", as [list, used]
RECURSIVE MergeInto(_, _, _, _)
MergeInto(list, usedSet, vs, k) ==
    IF k > Len(vs) \/ Len(list) >= variation_count THEN [list |-> list, used |-> usedSet]
    ELSE IF Lower(vs[k]) \notin usedSet
    THEN MergeInto(Append(list, vs[k]), usedSet \cup {Lower(vs[k])}, vs, k + 1)
    ELSE MergeInto(list, usedSet, vs, k + 1)

\* the Latin branch without the selector (line 159) and its merge loop
NonRulePlain ==
    /\ pc = "non_rule"
    /\ non_rule_count > 0
    /\ ~is_non_latin
    /\ ~(jelly /\ (Truthy(phonetic_similarity) \/ Truthy(orthographic_similarity)))
    /\ \E resp \in PoolSource(original_name, non_rule_count * 3) :
         LET m == MergeInto(variations, used_variations, resp, 1)
         IN  /\ non_rule_vars' = resp
             /\ variations' = m.list
             /\ used_variations' = m.used
    /\ pool_calls' = Append(pool_calls, non_rule_count * 3)
    /\ rng' = Drawn(rng)
    /\ pc' = "fallback"
    /\ UNCHANGED <<inputVars, rule_based_count, non_rule_count, slot, rule, attempts, var,
                   rule_attempts, selectorVars, lateVars>>

\* non_rule_count = 0: the phase is skipped
NonRuleSkip ==
    /\ pc = "non_rule"
    /\ non_rule_count <= 0
    /\ pc' = "fallback"
    /\ UNCHANGED <<inputVars, rng, rule_based_count, non_rule_count, variations,
                   used_variations, slot, rule, attempts, var, rule_attempts, selectorVars,
                   non_rule_vars, pool_calls, lateVars>>

\* the Latin branch with the selector (lines 149-156): the call
NonRuleTiered ==
    /\ pc = "non_rule"
    /\ non_rule_count > 0
    /\ ~is_non_latin
    /\ jelly /\ (Truthy(phonetic_similarity) \/ Truthy(orthographic_similarity))
    /\ pc' = "tiered"
    /\ tpc' = "pool"
    /\ UNCHANGED <<inputVars, rng, rule_based_count, non_rule_count, variations,
                   used_variations, slot, rule, attempts, var, rule_attempts, candidate_pool,
                   candidates_with_scores, selected, used, cursor, non_rule_vars, pool_calls,
                   lateVars>>

(***************************************************************************)
(* generate_tiered_name_variations (lines 376-601)                         *)
(***************************************************************************)
\* [c for c in pool if c.lower() != original_name.lower()]
FilterSeed(pool) == SelectSeq(pool, LAMBDA c : Lower(c) # Lower(original_name))

\* lines 400-403: a missing or empty distribution is all Medium
EffectiveDist(dist) == IF Truthy(dist) THEN dist ELSE Dist([t \in {"Medium"} |-> 100])

\* the product rounded to the nearest count instead of cut off
TierTargetRounded(dist, tier) == (non_rule_count * DistGet(EffectiveDist(dist), tier) + 50) \div 100

\* int(non_rule_count * dist.get(tier, 0.0)); fractions are held in percent,
\* and the floating-point product of the code has the same integer part as the
\* exact one for every percentage and every non_rule_count below 50
TierTarget(dist, tier) == (non_rule_count * DistGet(EffectiveDist(dist), tier)) \div 100

phonetic_counts(tier) == TierTarget(phonetic_similarity, tier)

orthographic_counts(tier) == TierTarget(orthographic_similarity, tier)

\* the pre-filter (lines 431-445): keep a candidate unless an earlier kept one
\* is too similar to it
\* a candidate compared with the whole pool, itself included
PreFilterAgainstPool(pool, unique_candidates, k) ==
    SelectSeq(pool, LAMBDA c : IsUniqueAgainst(pool, c))

RECURSIVE PreFilter(_, _, _)
PreFilter(pool, unique_candidates, k) ==
    IF k > Len(pool) THEN unique_candidates
    ELSE IF IsUniqueAgainst(unique_candidates, pool[k])
    THEN PreFilter(pool, Append(unique_candidates, pool[k]), k + 1)
    ELSE PreFilter(pool, unique_candidates, k + 1)

\* lines 461-476: one record for each candidate that is not the seed
ScoreRecord(candidate, phonetic_score, orthographic_score) ==
    [candidate |-> candidate,
     phonetic_score |-> phonetic_score,
     orthographic_score |-> orthographic_score,
     phonetic_tier |-> get_phonetic_tier_from_score(phonetic_score),
     orthographic_tier |-> get_orthographic_tier_from_score(orthographic_score)]

ScoreEntry(candidate) ==
    ScoreRecord(candidate,
                calculate_phonetic_similarity_score(original_name, candidate),
                calculate_orthographic_similarity_score(original_name, candidate))

ScoredAll(kept) == [i \in 1..Len(kept) |-> ScoreEntry(kept[i])]

Scored(pool) == ScoredAll(FilterSeed(pool))

\* what random.shuffle makes of [1, ..., n] right after random.seed(1),
\* random.sample of three and three random.random(), for n = 0, 1, ...
ShuffleTable1 ==
    <<
     <<>>,
     <<1>>,
     <<1, 2>>,
     <<3, 1, 2>>,
     <<2, 3, 1, 4>>,
     <<3, 5, 1, 2, 4>>,
     <<3, 6, 5, 1, 2, 4>>,
     <<3, 6, 5, 7, 1, 2, 4>>,
     <<3, 6, 5, 4, 1, 2, 8, 7>>,
     <<3, 5, 2, 6, 9, 8, 1, 4, 7>>,
     <<8, 6, 3, 5, 10, 1, 9, 2, 4, 7>>,
     <<5, 9, 3, 11, 6, 10, 1, 8, 2, 4, 7>>,
     <<5, 10, 3, 9, 6, 11, 12, 1, 8, 2, 4, 7>>,
     <<3, 6, 11, 10, 9, 5, 12, 13, 1, 8, 2, 4, 7>>,
     <<3, 6, 11, 10, 9, 5, 12, 14, 1, 8, 2, 4, 13, 7>>,
     <<12, 6, 11, 3, 14, 10, 5, 9, 15, 1, 8, 2, 4, 13, 7>>,
     <<9, 12, 5, 15, 3, 14, 6, 11, 10, 7, 1, 8, 2, 4, 16, 13>>,
     <<11, 4, 5, 9, 15, 6, 3, 14, 17, 10, 12, 16, 1, 8, 2, 7, 13>>,
     <<3, 16, 12, 11, 9, 2, 6, 5, 15, 14, 10, 18, 17, 1, 8, 4, 7, 13>>,
     <<3, 17, 12, 11, 9, 2, 6, 5, 8, 15, 10, 19, 18, 14, 1, 16, 4, 7, 13>>,
     <<3, 18, 12, 11, 9, 2, 6, 5, 8, 17, 10, 20, 19, 14, 15, 1, 16, 4, 7, 13>>,
     <<11, 9, 15, 14, 6, 12, 3, 2, 19, 5, 8, 17, 18, 10, 20, 21, 1, 16, 4, 7, 13>>
    >>

\* the same after random.seed(3)
ShuffleTable3 ==
    <<
     <<>>,
     <<1>>,
     <<2, 1>>,
     <<2, 1, 3>>,
     <<4, 3, 2, 1>>,
     <<4, 3, 2, 1, 5>>,
     <<3, 6, 2, 4, 1, 5>>,
     <<2, 6, 7, 3, 4, 1, 5>>,
     <<5, 6, 8, 2, 3, 4, 7, 1>>,
     <<9, 4, 7, 6, 2, 5, 3, 8, 1>>,
     <<9, 4, 7, 6, 2, 5, 3, 8, 1, 10>>,
     <<11, 7, 3, 4, 6, 2, 9, 5, 8, 1, 10>>,
     <<3, 11, 7, 9, 12, 6, 2, 4, 5, 8, 1, 10>>,
     <<3, 12, 7, 13, 11, 6, 2, 4, 9, 5, 8, 1, 10>>,
     <<3, 13, 2, 7, 11, 12, 6, 14, 4, 9, 5, 8, 1, 10>>,
     <<2, 14, 3, 6, 11, 7, 12, 13, 15, 4, 9, 5, 8, 1, 10>>,
     <<2, 16, 3, 6, 11, 7, 12, 13, 10, 4, 9, 5, 8, 14, 15, 1>>,
     <<7, 17, 3, 15, 2, 6, 12, 11, 10, 14, 8, 13, 4, 9, 5, 16, 1>>,
     <<7, 18, 3, 5, 2, 6, 13, 11, 10, 15, 8, 12, 14, 4, 17, 9, 16, 1>>,
     <<5, 19, 10, 15, 11, 6, 2, 3, 7, 13, 14, 17, 18, 12, 4, 8, 9, 16, 1>>,
     <<5, 19, 10, 15, 11, 6, 2, 3, 7, 13, 14, 17, 18, 12, 4, 8, 9, 16, 1, 20>>,
     <<10, 21, 15, 11, 5, 2, 6, 4, 3, 19, 14, 13, 18, 17, 12, 7, 8, 9, 16, 1, 20>>
    >>

\* random.shuffle of an n-element list right after a phonetic score seeded the
\* source with h: position i of the result holds element ShufflePerm(h, n)[i]
\* the same for the ninety elements of UniformPool
ShuffleLong1 ==
    <<
     54, 38, 66, 52, 5, 21, 39, 10, 11, 82, 45, 37, 85, 51, 9, 84, 67, 17, 81, 34,
     25, 53, 61, 18, 65, 6, 59, 77, 40, 80, 24, 16, 31, 74, 26, 48, 32, 46, 20, 88,
     43, 69, 33, 22, 8, 68, 47, 83, 12, 7, 42, 87, 89, 71, 19, 79, 72, 60, 44, 62,
     23, 15, 36, 64, 57, 29, 73, 55, 28, 90, 2, 70, 75, 3, 86, 41, 14, 76, 30, 35,
     58, 1, 78, 56, 50, 4, 63, 13, 27, 49
    >>

ShuffleLong3 ==
    <<
     36, 42, 46, 5, 77, 13, 1, 65, 43, 12, 82, 40, 8, 49, 79, 16, 54, 63, 10, 53, 69,
     56, 64, 66, 62, 68, 48, 19, 59, 87, 31, 81, 11, 18, 73, 22, 15, 45, 38, 75, 23,
     60, 84, 33, 27, 76, 41, 28, 44, 17, 14, 32, 58, 3, 7, 24, 57, 72, 29, 37, 52,
     47, 26, 55, 74, 80, 35, 4, 39, 6, 21, 9, 89, 50, 67, 90, 85, 20, 51, 83, 86, 70,
     88, 25, 30, 71, 34, 61, 2, 78
    >>

ShufflePerm(h, n) ==
    CASE n < Len(ShuffleTable1) -> IF h = 1 THEN ShuffleTable1[n + 1] ELSE ShuffleTable3[n + 1]
      [] n = Len(ShuffleLong1) -> IF h = 1 THEN ShuffleLong1 ELSE ShuffleLong3

\* the orders random.shuffle can give the list: the one the seeded source
\* determines, any order when the source is in an unknown state
Shuffles(r, list) ==
    IF r.clean
    THEN {[i \in 1..Len(list) |-> list[ShufflePerm(r.seed, Len(list))[i]]]}
    ELSE Perms(list)

\* the number of selected strings whose tier on one axis is the given tier
phonetic_selected_count(tier) ==
    Cardinality({k \in 1..Len(selected) :
        get_phonetic_tier_from_score(
            calculate_phonetic_similarity_score(original_name, selected[k])) = tier})

orthographic_selected_count(tier) ==
    Cardinality({k \in 1..Len(selected) :
        get_orthographic_tier_from_score(
            calculate_orthographic_similarity_score(original_name, selected[k])) = tier})

\* the acceptance loops of passes 2 and 3 (lines 534-555, 565-584) over cands,
\* pass 2 skipping what is in used
RECURSIVE SelectFold(_, _, _, _, _, _)
SelectFold(sel, usedSet, r, cands, k, checkUsed) ==
    IF k > Len(cands) \/ Len(sel) >= non_rule_count
    THEN [selected |-> sel, used |-> usedSet, rng |-> r]
    ELSE IF checkUsed /\ Lower(cands[k]) \in usedSet
    THEN SelectFold(sel, usedSet, r, cands, k + 1, checkUsed)
    ELSE IF IsUniqueAgainst(sel, cands[k])
    THEN SelectFold(Append(sel, cands[k]), usedSet \cup {Lower(cands[k])},
                    AfterUniqueLoop(r, sel, cands[k]), cands, k + 1, checkUsed)
    ELSE SelectFold(sel, usedSet, AfterUniqueLoop(r, sel, cands[k]), cands, k + 1,
                    checkUsed)

orchestratorVars == <<rule_based_count, non_rule_count, variations, used_variations, slot,
                      rule, attempts, max_attempts, var, rule_attempts, result>>

\* lines 390-395: the candidate pool, without the seed
TieredPool ==
    /\ pc = "tiered" /\ tpc = "pool"
    /\ \E resp \in PoolSource(original_name, non_rule_count * 10) :
         /\ candidate_pool' = FilterSeed(resp)
         /\ tpc' = IF FilterSeed(resp) = <<>> THEN "early" ELSE "prepare"
    /\ pool_calls' = Append(pool_calls, non_rule_count * 10)
    /\ rng' = Drawn(rng)
    /\ UNCHANGED <<inputVars, pc, orchestratorVars, candidates_with_scores, selected, used,
                   cursor, non_rule_vars>>

\* lines 395-397: an empty pool returns what the pool source gives for N
TieredEarlyReturn ==
    /\ pc = "tiered" /\ tpc = "early"
    /\ \E resp \in PoolSource(original_name, non_rule_count) : non_rule_vars' = resp
    /\ pool_calls' = Append(pool_calls, non_rule_count)
    /\ rng' = Drawn(rng)
    /\ tpc' = "returned"
    /\ UNCHANGED <<inputVars, pc, orchestratorVars, candidate_pool, candidates_with_scores,
                   selected, used, cursor>>

\* lines 447-452: the pre-filtered pool, or a new request when it is empty
PoolsAfterPreFilter(unique_candidates) ==
    IF unique_candidates # <<>> THEN {unique_candidates}
    ELSE {FilterSeed(resp) : resp \in PoolSource(original_name, non_rule_count * 20)}

\* scoring that leaves the random source alone, and the shuffle
ScoreAndShuffleUnseeded(pool, scored) ==
    /\ candidate_pool' = pool
    /\ candidates_with_scores' \in Shuffles(Drawn(rng), scored)
    /\ rng' = Drawn(rng)

\* lines 456-479 on the chosen pool: scoring, which reseeds the random source
\* when jellyfish is there, and the shuffle
ScoreAndShuffle(pool, scored) ==
    /\ candidate_pool' = pool
    /\ candidates_with_scores' \in
           Shuffles(IF jelly /\ scored # <<>> THEN Reseeded(original_name) ELSE rng, scored)
    /\ rng' = IF jelly /\ scored # <<>>
              THEN (IF Len(scored) >= 2 THEN Drawn(Reseeded(original_name))
                    ELSE Reseeded(original_name))
              ELSE (IF Len(scored) >= 2 THEN Drawn(rng) ELSE rng)

\* lines 447-479 on the pre-filtered candidates
PrepareFrom(unique_candidates) ==
    /\ \E pool \in PoolsAfterPreFilter(unique_candidates) :
         ScoreAndShuffle(pool, Scored(pool))
    /\ pool_calls' = IF unique_candidates # <<>> THEN pool_calls
                     ELSE Append(pool_calls, non_rule_count * 20)

\* lines 399-479: targets, categorisation, pre-filter, scoring and shuffle
TieredPrepare ==
    /\ pc = "tiered" /\ tpc = "prepare"
    /\ PrepareFrom(PreFilter(candidate_pool, <<>>, 1))
    /\ selected' = <<>>
    /\ used' = {}
    /\ cursor' = 1
    /\ tpc' = "pass1"
    /\ UNCHANGED <<inputVars, pc, orchestratorVars, non_rule_vars>>

\* a candidate taken only when both of its tiers are still needed
Pass1AcceptsBoth(is_unique, phonetic_needed, orthographic_needed) == is_unique /\ phonetic_needed /\ orthographic_needed

\* lines 520-529: both branches of "if is_unique" append the candidate
Pass1Accepts(is_unique, phonetic_needed, orthographic_needed) ==
    is_unique /\ ((phonetic_needed /\ orthographic_needed) \/ (phonetic_needed \/ orthographic_needed))

\* one iteration of the first pass (lines 483-529)
TieredPass1 ==
    /\ pc = "tiered" /\ tpc = "pass1"
    /\ IF cursor > Len(candidates_with_scores) \/ Len(selected) >= non_rule_count
       THEN /\ tpc' = "pass2"
            /\ UNCHANGED <<selected, used, cursor, rng>>
       ELSE LET cand_data == candidates_with_scores[cursor]
                candidate == cand_data.candidate
                phonetic_needed ==
                    phonetic_counts(cand_data.phonetic_tier)
                        > phonetic_selected_count(cand_data.phonetic_tier)
                orthographic_needed ==
                    orthographic_counts(cand_data.orthographic_tier)
                        > orthographic_selected_count(cand_data.orthographic_tier)
            IN  /\ IF Pass1Accepts(IsUniqueAgainst(selected, candidate),
                                       phonetic_needed, orthographic_needed)
                   THEN /\ selected' = Append(selected, candidate)
                        /\ used' = used \cup {Lower(candidate)}
                   ELSE UNCHANGED <<selected, used>>
                /\ rng' = AfterUniqueLoop(rng, selected, candidate)
                /\ cursor' = cursor + 1
                /\ UNCHANGED tpc
    /\ UNCHANGED <<inputVars, pc, orchestratorVars, candidate_pool, candidates_with_scores,
                   non_rule_vars, pool_calls>>

\* the second pass (lines 532-555)
TieredPass2 ==
    /\ pc = "tiered" /\ tpc = "pass2"
    /\ LET cands == [i \in 1..Len(candidates_with_scores) |->
                        candidates_with_scores[i].candidate]
           f == SelectFold(selected, used, rng, cands, 1, TRUE)
       IN  /\ selected' = f.selected
           /\ used' = f.used
           /\ rng' = f.rng
    /\ tpc' = "pass3"
    /\ UNCHANGED <<inputVars, pc, orchestratorVars, candidate_pool, candidates_with_scores,
                   cursor, non_rule_vars, pool_calls>>

\* a request of ten candidates for each missing one
Pass3LimitTenfold(remaining) == remaining * 10

\* limit=remaining * 20 (line 561)
Pass3Limit(remaining) == remaining * 20

\* the third pass (lines 558-584): one more request, of remaining * 20
TieredPass3 ==
    /\ pc = "tiered" /\ tpc = "pass3"
    /\ IF Len(selected) < non_rule_count
       THEN LET remaining == non_rule_count - Len(selected)
            IN  /\ \E resp \in PoolSource(original_name, Pass3Limit(remaining)) :
                     LET extra_candidates ==
                             SelectSeq(resp, LAMBDA c : /\ Lower(c) # Lower(original_name)
                                                        /\ Lower(c) \notin used)
                         f == SelectFold(selected, used, Drawn(rng), extra_candidates, 1,
                                         FALSE)
                     IN  /\ selected' = f.selected
                         /\ used' = f.used
                         /\ rng' = f.rng
                /\ pool_calls' = Append(pool_calls, Pass3Limit(remaining))
       ELSE UNCHANGED <<selected, used, rng, pool_calls>>
    /\ tpc' = "return"
    /\ UNCHANGED <<inputVars, pc, orchestratorVars, candidate_pool, candidates_with_scores,
                   cursor, non_rule_vars>>

\* lines 587-601: the tally that nothing reads, and return selected[:non_rule_count]
TieredReturn ==
    /\ pc = "tiered" /\ tpc = "return"
    /\ non_rule_vars' = Take(selected, non_rule_count)
    /\ rng' = IF Len(selected) >= non_rule_count /\ selected # <<>>
              THEN Reseeded(original_name) ELSE rng
    /\ tpc' = "returned"
    /\ UNCHANGED <<inputVars, pc, orchestratorVars, candidate_pool, candidates_with_scores,
                   selected, used, cursor, pool_calls>>

\* lines 161-166: the caller merges what the selector returned
NonRuleMerge ==
    /\ pc = "tiered" /\ tpc = "returned"
    /\ LET m == MergeInto(variations, used_variations, non_rule_vars, 1)
       IN  /\ variations' = m.list
           /\ used_variations' = m.used
    /\ pc' = "fallback"
    /\ UNCHANGED <<inputVars, rng, rule_based_count, non_rule_count, slot, rule, attempts,
                   var, rule_attempts, selectorVars, non_rule_vars, pool_calls, lateVars>>

(***************************************************************************)
(* generate_non_latin_variations (lines 620-771).  A call is the set of    *)
(* [list, calls] it can end with: the returned list and the limits of the  *)
(* pool requests it made.  Its loop state is [v, u, calls].                *)
(***************************************************************************)
\* unidecode(name) on the model's non-Latin names; identity on ASCII
Unidecode(name) ==
    IF name = <<26446, 23068>> THEN <<76, 105, 32, 78, 97, 32>>
    ELSE IF name = <<26446, 32, 23068>> THEN <<76, 105, 32, 32, 78, 97, 32>>
    ELSE name

\* "if x.lower() not in used: variations.append(x); used.add(x.lower())"
NLAdd(st, x) ==
    IF Lower(x) \notin st.u
    THEN [v |-> Append(st.v, x), u |-> st.u \cup {Lower(x)}, calls |-> st.calls]
    ELSE st

\* the same, only when the condition cond holds
NLAddIf(cond, st, x) == IF cond THEN NLAdd(st, x) ELSE st

\* lines 645-653: a space in the middle of the first long part that gives a new string
RECURSIVE NLSpaced(_, _, _)
NLSpaced(st, parts, idx) ==
    IF idx > Len(parts) THEN st
    ELSE IF Len(parts[idx]) > 4
            /\ Lower(Join(<<SPACE>>, [parts EXCEPT ![idx] =
                   InsertAt(parts[idx], Len(parts[idx]) \div 2, SPACE)])) \notin st.u
    THEN NLAdd(st, Join(<<SPACE>>, [parts EXCEPT ![idx] =
                   InsertAt(parts[idx], Len(parts[idx]) \div 2, SPACE)]))
    ELSE NLSpaced(st, parts, idx + 1)

\* parts[-1] followed by parts[:-1]
LastFirst(parts) == Join(<<SPACE>>, <<parts[Len(parts)]>> \o SubSeq(parts, 1, Len(parts) - 1))

\* strategy 1 (lines 629-669)
NLScript(st, parts, script) ==
    IF script \in {"arabic", "cyrillic"}
    THEN NLAddIf(Len(parts) >= 2,
                 NLSpaced(NLAddIf(Len(parts) >= 2,
                                  NLAddIf(Len(parts) >= 2, st, LastFirst(parts)),
                                  Join(<<>>, parts)),
                          parts, 1),
                 Join(<<SPACE>>, Reverse(parts)))
    ELSE IF script = "cjk" THEN NLAddIf(Len(parts) >= 2, st, LastFirst(parts))
    ELSE st

\* lines 679-682: the answers not yet used, all of them marked used
RECURSIVE NLFresh(_, _, _, _)
NLFresh(resp, k, usedSet, acc) ==
    IF k > Len(resp) THEN [vars |-> acc, u |-> usedSet]
    ELSE IF Lower(resp[k]) \notin usedSet
    THEN NLFresh(resp, k + 1, usedSet \cup {Lower(resp[k])}, Append(acc, resp[k]))
    ELSE NLFresh(resp, k + 1, usedSet, acc)

\* lines 686-691 on the fresh answers
NLMix(st, fresh, count, limit) ==
    [v |-> st.v \o Take(fresh.vars, count - Len(st.v)), u |-> fresh.u,
     calls |-> Append(st.calls, limit)]

\* strategy 2 (lines 673-691)
NLTranslit(st, name, count) ==
    IF unidecode_ok /\ Len(st.v) < count /\ Unidecode(name) # <<>> /\ Unidecode(name) # name
    THEN {NLMix(st, NLFresh(resp, 1, st.u, <<>>), count,
                Max2(count - Len(st.v), count \div 2)) :
             resp \in PoolSource(Unidecode(name), Max2(count - Len(st.v), count \div 2))}
    ELSE {st}

\* the three draws of one attempt of strategy 3 (lines 701-728)
NLRemove(st, name) ==
    IF Len(name) > 2
    THEN {NLAddIf(DeleteAt(name, i) # <<>>, st, DeleteAt(name, i)) : i \in 1..Len(name)}
    ELSE {st}

NLDuplicate(st, name, count) ==
    IF Len(st.v) < count /\ Len(name) > 1
    THEN {NLAdd(st, InsertAt(name, i, name[i])) : i \in 1..Len(name)}
    ELSE {st}

NLSwap(st, name, count) ==
    IF Len(st.v) < count /\ Len(name) >= 2
    THEN {NLAdd(st, SwapAt(name, i)) : i \in 1..(Len(name) - 1)}
    ELSE {st}

NLAttempt(st, name, count) ==
    IF Len(st.v) >= count THEN {st}
    ELSE UNION {UNION {NLSwap(s2, name, count) : s2 \in NLDuplicate(s1, name, count)} :
                   s1 \in NLRemove(st, name)}

\* strategy 3: "while len(variations) < count and attempts < count * 3"
RECURSIVE NLLoop(_, _, _, _)
NLLoop(states, a, name, count) ==
    IF a >= count * 3 THEN states
    ELSE NLLoop(UNION {NLAttempt(st, name, count) : st \in states}, a + 1, name, count)

\* strategy 4 (lines 731-742)
RECURSIVE NLMerge(_, _, _, _)
NLMerge(st, resp, k, count) ==
    IF k > Len(resp) \/ Len(st.v) >= count THEN st
    ELSE NLMerge(NLAdd(st, resp[k]), resp, k + 1, count)

NLMore(st, name, count) ==
    IF unidecode_ok /\ Len(st.v) < count /\ Unidecode(name) # <<>> /\ Unidecode(name) # name
    THEN {NLMerge([st EXCEPT !.calls = Append(st.calls, (count - Len(st.v)) * 3)],
                  resp, 1, count) :
             resp \in PoolSource(Unidecode(name), (count - Len(st.v)) * 3)}
    ELSE {st}

\* strategy 5 (lines 745-769): iteration i of "for i in range(remaining * 2)"
NLSimple(parts, i) ==
    IF Len(parts) >= 2
    THEN IF i % 3 = 0 THEN Join(<<SPACE>>, Reverse(parts))
         ELSE IF i % 3 = 1 THEN Join(<<>>, parts)
         ELSE parts[Len(parts)] \o <<SPACE>> \o Join(<<SPACE>>, SubSeq(parts, 1, Len(parts) - 1))
    ELSE IF Len(parts) = 1 /\ Len(parts[1]) > 1
    THEN DeleteAt(parts[1], (((i * 3) % (Len(parts[1]) - 1)) + 1) + 1)
    ELSE None

RECURSIVE NLLast(_, _, _, _, _)
NLLast(st, i, n, name, count) ==
    IF i >= n \/ Len(st.v) >= count THEN st
    ELSE NLLast(NLAddIf(IsTruthy(NLSimple(Split(name), i)), st, NLSimple(Split(name), i)),
                i + 1, n, name, count)

NLFinish(st, name, count) ==
    [list |-> Take(NLLast(st, 0, (count - Len(st.v)) * 2, name, count).v, count),
     calls |-> st.calls]

generate_non_latin_variations(name, script, count) ==
    {NLFinish(s4, name, count) :
        s4 \in UNION {NLMore(s3, name, count) :
                  s3 \in NLLoop(NLTranslit(NLScript([v |-> <<>>, u |-> {Lower(name)},
                                                     calls |-> <<>>],
                                                    Split(name), script),
                                           name, count),
                                0, name, count)}}

\* lines 136-146: the non-Latin branch of the non-rule phase and its merge loop
NonRuleNonLatin ==
    /\ pc = "non_rule"
    /\ non_rule_count > 0
    /\ is_non_latin
    /\ \E r \in generate_non_latin_variations(original_name, detect_script(original_name),
                                              non_rule_count * 3) :
         /\ non_rule_vars' = r.list
         /\ variations' = MergeInto(variations, used_variations, r.list, 1).list
         /\ used_variations' = MergeInto(variations, used_variations, r.list, 1).used
         /\ pool_calls' = pool_calls \o r.calls
    /\ rng' = Drawn(rng)
    /\ pc' = "fallback"
    /\ UNCHANGED <<inputVars, rule_based_count, non_rule_count, slot, rule, attempts, var,
                   rule_attempts, selectorVars, lateVars>>

(***************************************************************************)
(* The final fallback (lines 170-265) and the return                       *)
(***************************************************************************)
\* the outcome of computing var in one iteration of the manual loop
Val(v) == [kind |-> "value", v |-> v]

Raise == [kind |-> "raise", v |-> None]

Continue == [kind |-> "continue", v |-> None]

Separators == <<<<>>, <<45>>, <<95>>, <<46>>>>

Vowels == <<97, 101, 105, 111, 117>>

VowelIndex(c) == CHOOSE i \in 1..Len(Vowels) : Vowels[i] = c

\* len(parts) >= 2 (lines 199-224)
MultiPartVariation(parts, a) ==
    LET strategy == a % 6
    IN  IF strategy = 0 THEN Val(Join(<<SPACE>>, Reverse(parts)))
        ELSE IF strategy = 1 THEN Val(Join(<<>>, parts))
        ELSE IF strategy = 2
        THEN Val(parts[Len(parts)] \o <<SPACE>>
                 \o Join(<<SPACE>>, SubSeq(parts, 1, Len(parts) - 1)))
        ELSE IF strategy = 3
        THEN IF Len(parts) > 2
             THEN Val(Join(<<SPACE>>, <<parts[2], parts[1]>> \o SubSeq(parts, 3, Len(parts))))
             ELSE Val(Join(<<SPACE>>, Reverse(parts)))
        ELSE IF strategy = 4
        THEN LET part_idx == a % Len(parts)
                 word == parts[part_idx + 1]
             IN  IF Len(word) > 1
                 THEN LET char_idx == ((a \div Len(parts)) % (Len(word) - 1)) + 1
                      IN  Val(Join(<<SPACE>>,
                                   [parts EXCEPT ![part_idx + 1] = DeleteAt(word, char_idx + 1)]))
                 ELSE Val(None)
        ELSE Val(Join(Separators[(a % Len(Separators)) + 1], parts))

\* the single-word branch (lines 227-258); an index out of range and a modulo
\* by zero raise
SingleWordVariation(parts, a) ==
    IF parts = <<>> THEN Raise
    ELSE LET word == parts[1]
             word_len == Len(word)
             strategy == a % 5
             step == a \div 5
         IN  IF strategy = 0
             THEN IF word_len - 1 = 0 THEN Raise
                  ELSE Val(DeleteAt(word, (step % (word_len - 1)) + 2))
             ELSE IF strategy = 1
             THEN IF word_len - 1 = 0 THEN Raise
                  ELSE Val(SwapAt(word, (step % (word_len - 1)) + 1))
             ELSE IF strategy = 2
             THEN IF word_len = 0 THEN Raise
                  ELSE Val(InsertAt(word, (step % word_len) + 1, word[(step % word_len) + 1]))
             ELSE IF strategy = 3
             THEN IF word_len = 0 THEN Raise
                  ELSE IF IsLowerC(word[1])
                  THEN Val(<<UpperC(word[1])>> \o Lower(SubSeq(word, 2, word_len)))
                  ELSE Val(word)
             ELSE LET vowel_at == {i \in 1..word_len : IsVowelLC(LowerC(word[i]))}
                  IN  IF vowel_at = {} THEN Val(word)
                      ELSE LET i == CHOOSE x \in vowel_at : \A y \in vowel_at : x <= y
                               new_vowel == Vowels[(((VowelIndex(LowerC(word[i])) - 1)
                                                     + (step % Len(Vowels))) % Len(Vowels)) + 1]
                           IN  Val(ReplaceAt(word, i, new_vowel))

\* the branch choice without the guard of the single-word branch
ManualBranchUnguarded(parts) == IF Len(parts) >= 2 THEN "multi" ELSE "single"

\* which branch of lines 197/225/259 an iteration takes
ManualBranch(parts) ==
    IF Len(parts) >= 2 THEN "multi"
    ELSE IF Len(parts) = 1 /\ Len(parts[1]) > 1 THEN "single"
    ELSE "continue"

ManualVariation(parts, a) ==
    IF ManualBranch(parts) = "multi" THEN MultiPartVariation(parts, a)
    ELSE IF ManualBranch(parts) = "single" THEN SingleWordVariation(parts, a)
    ELSE Continue

\* an iteration that does not count itself
NextAttemptStuck(a) == a

\* attempts += 1 (line 195)
NextAttempt(a) == a + 1

\* lines 170-192 for a Latin seed: is the manual loop needed, and its budget
FallbackEnter ==
    /\ pc = "fallback"
    /\ ~is_non_latin
    /\ IF Len(variations) < variation_count
       THEN /\ attempts' = 0
            /\ max_attempts' = (variation_count - Len(variations)) * 10
            /\ pc' = "manual"
       ELSE /\ pc' = "finish"
            /\ UNCHANGED <<attempts, max_attempts>>
    /\ UNCHANGED <<inputVars, rng, rule_based_count, non_rule_count, variations,
                   used_variations, slot, rule, var, rule_attempts, selectorVars,
                   non_rule_vars, pool_calls, result>>

\* lines 262-265 on the outcome of an iteration, or the exception leaving the call
ManualApply(out) ==
    /\ pc' = IF out.kind = "raise" THEN "raised" ELSE "manual"
    /\ var' = IF out.kind = "value" THEN out.v ELSE var
    /\ IF /\ out.kind = "value"
          /\ IsTruthy(out.v)
          /\ Lower(out.v) \notin used_variations
          /\ out.v # original_name
       THEN /\ variations' = Append(variations, out.v)
            /\ used_variations' = used_variations \cup {Lower(out.v)}
       ELSE UNCHANGED <<variations, used_variations>>

\* one iteration of the manual loop (lines 194-265)
ManualStep ==
    /\ pc = "manual"
    /\ IF Len(variations) < variation_count /\ attempts < max_attempts
       THEN /\ attempts' = NextAttempt(attempts)
            /\ ManualApply(ManualVariation(Split(original_name), NextAttempt(attempts)))
       ELSE /\ pc' = "finish"
            /\ UNCHANGED <<attempts, var, variations, used_variations>>
    /\ UNCHANGED <<inputVars, rng, rule_based_count, non_rule_count, slot, rule,
                   max_attempts, rule_attempts, selectorVars, non_rule_vars, pool_calls,
                   result>>

\* return variations[:variation_count]
Finish ==
    /\ pc = "finish"
    /\ result' = Take(variations, variation_count)
    /\ pc' = "done"
    /\ UNCHANGED <<inputVars, rng, rule_based_count, non_rule_count, variations,
                   used_variations, slot, rule, attempts, max_attempts, var, rule_attempts,
                   selectorVars, non_rule_vars, pool_calls>>

\* lines 170-192 for a non-Latin seed: more script-specific variations first
FallbackNonLatin ==
    /\ pc = "fallback"
    /\ is_non_latin
    /\ IF Len(variations) < variation_count
       THEN \E r \in generate_non_latin_variations(
                         original_name, detect_script(original_name),
                         (variation_count - Len(variations)) * 5) :
              /\ variations' = MergeInto(variations, used_variations, r.list, 1).list
              /\ used_variations' = MergeInto(variations, used_variations, r.list, 1).used
              /\ pool_calls' = pool_calls \o r.calls
              /\ rng' = Drawn(rng)
       ELSE UNCHANGED <<variations, used_variations, pool_calls, rng>>
    /\ IF Len(variations') < variation_count
       THEN /\ attempts' = 0
            /\ max_attempts' = (variation_count - Len(variations')) * 10
            /\ pc' = "manual"
       ELSE /\ pc' = "finish"
            /\ UNCHANGED <<attempts, max_attempts>>
    /\ UNCHANGED <<inputVars, rule_based_count, non_rule_count, slot, rule, var,
                   rule_attempts, selectorVars, non_rule_vars, result>>

Next ==
    \/ Resolve
    \/ RuleSlot
    \/ RuleWhile
    \/ RuleAccept
    \/ NonRuleSkip
    \/ NonRulePlain
    \/ NonRuleNonLatin
    \/ NonRuleTiered
    \/ TieredPool
    \/ TieredEarlyReturn
    \/ TieredPrepare
    \/ TieredPass1
    \/ TieredPass2
    \/ TieredPass3
    \/ TieredReturn
    \/ NonRuleMerge
    \/ FallbackEnter
    \/ FallbackNonLatin
    \/ ManualStep
    \/ Finish

Spec == Init /\ [][Next]_vars

(***************************************************************************)
(* The tier classifiers on their own: a score k / ScoreSteps is classified *)
(* on both axes.                                                           *)
(***************************************************************************)
\* the scores are the multiples of 1 / ScoreSteps in [0, 1]
ScoreSteps == 100

TierInit ==
    /\ original_name = <<>>
    /\ variation_count = 0
    /\ rule_pct = 0
    /\ rules = <<>>
    /\ phonetic_similarity = NoDist
    /\ orthographic_similarity = NoDist
    /\ jelly = TRUE
    /\ unidecode_ok = TRUE
    /\ salt = 0
    /\ rng = [seed |-> 0, clean |-> FALSE]
    /\ pc = "classify"
    /\ rule_based_count = 0
    /\ non_rule_count = 0
    /\ variations = <<>>
    /\ used_variations = {}
    /\ slot = 0
    /\ rule = ""
    /\ attempts = 0
    /\ max_attempts = 0
    /\ var = None
    /\ rule_attempts = <<>>
    /\ tpc = "idle"
    /\ candidate_pool = <<>>
    /\ candidates_with_scores = <<>>
    /\ selected = <<>>
    /\ used = {}
    /\ cursor \in 0..ScoreSteps
    /\ non_rule_vars = <<>>
    /\ pool_calls = <<>>
    /\ result = <<>>
    /\ identity = <<>>
    /\ uav_seed_name = None
    /\ all_variations = <<>>
    /\ processed = 0
    /\ generated = <<>>

\* both classifiers applied to the score cursor / ScoreSteps
Classify ==
    /\ pc = "classify"
    /\ candidates_with_scores' =
           <<ScoreRecord(<<>>, [n |-> cursor, d |-> ScoreSteps],
                         [n |-> cursor, d |-> ScoreSteps])>>
    /\ pc' = "classified"
    /\ UNCHANGED <<inputVars, rng, orchestratorVars, tpc, candidate_pool, selected, used,
                   cursor, non_rule_vars, pool_calls>>

TierNext == Classify

TierSpec == TierInit /\ [][TierNext]_vars

(***************************************************************************)
(* Properties                                                              *)
(***************************************************************************)
\* C1: every call returns a list of exactly variation_count strings
C1_ExactCount == pc = "done" => Len(result) = variation_count

\* C2: no returned string equals the seed after lower-casing
C2_NoSeedLeak ==
    pc = "done" => \A i \in 1..Len(result) : Lower(result[i]) # Lower(original_name)

\* C3: no two returned strings, at distinct positions and in either order, have
\* a combined similarity above 0.99
C3_PairwiseUnique ==
    pc = "done" =>
        \A i, j \in 1..Len(result) : i # j => ~CombinedAbove99(result[i], result[j])

\* C4: in every state the accumulated list holds no two strings that are equal
\* after lower-casing, and neither does the returned list
C4_NoCaseDuplicates ==
    /\ \A i, j \in 1..Len(variations) :
          i # j => Lower(variations[i]) # Lower(variations[j])
    /\ \A i, j \in 1..Len(result) : i # j => Lower(result[i]) # Lower(result[j])

\* a call that was offered a case variant of a string it already held, and
\* returned at least two strings
C4_Witness ==
    /\ pc = "done"
    /\ Len(result) >= 2
    /\ \E k \in 1..Len(non_rule_vars) :
          /\ non_rule_vars[k] \notin Range(result)
          /\ Lower(non_rule_vars[k]) \in {Lower(result[i]) : i \in 1..Len(result)}

\* the iterations a call still has before it, phase by phase: the rule loop
\* counts its slots and each slot's tries, the first pass of the selector its
\* candidates, the manual loop its attempts
Rank ==
    CASE pc = "start" -> 9000
      [] pc = "rule_loop" -> 8000 + (rule_based_count - slot) * 30 + 23
      [] pc = "rule_while" -> 8000 + (rule_based_count - slot) * 30 + (21 - attempts)
      [] pc = "rule_accept" -> 8000 + (rule_based_count - slot) * 30
      [] pc = "non_rule" -> 7000
      [] pc = "tiered" ->
            6000 + (CASE tpc = "pool" -> 400
                      [] tpc = "prepare" -> 399
                      [] tpc = "early" -> 399
                      [] tpc = "pass1" ->
                            200 + (Len(candidates_with_scores) + 1 - cursor)
                      [] tpc = "pass2" -> 3
                      [] tpc = "pass3" -> 2
                      [] tpc = "return" -> 1
                      [] OTHER -> 0)
      [] pc = "fallback" -> 5000
      [] pc = "manual" -> 4000 + (max_attempts - attempts)
      [] pc = "finish" -> 3000
      [] OTHER -> 0

\* C5: every call terminates: each step of a call makes the natural number Rank
\* smaller, so no loop of the orchestrator or of the selector runs without bound
C5_Terminates == [][Rank' < Rank /\ Rank' >= 0]_vars

\* a call that used up the whole budget of its last loop and still returned
C5_Witness ==
    /\ pc = "done"
    /\ max_attempts > 0
    /\ attempts = max_attempts
    /\ Len(result) < variation_count

\* C6: with an empty seed, a count of zero or an empty rule list no exception
\* leaves the call
C6_NoException ==
    (original_name = <<>> \/ variation_count = 0 \/ rules = <<>>) => pc # "raised"

\* a call for an empty seed without rules that ran its last loop to the end
\* and returned the empty list
C6_Witness ==
    /\ pc = "done"
    /\ original_name = <<>>
    /\ rules = <<>>
    /\ variation_count > 0
    /\ attempts = max_attempts
    /\ max_attempts > 0
    /\ result = <<>>

\* C7: rule_based_count is variation_count * rule_pct / 100 rounded to the
\* nearest integer (to the even one of two equally near) and at most
\* variation_count, non_rule_count is the rest, and neither is negative
C7_Counts ==
    pc # "start" =>
        /\ rule_based_count >= 0
        /\ rule_based_count <= variation_count
        /\ non_rule_count >= 0
        /\ non_rule_count = variation_count - rule_based_count
        /\ 2 * (100 * rule_based_count - variation_count * rule_pct) <= 100
        /\ 2 * (variation_count * rule_pct - 100 * rule_based_count) <= 100
        /\ (variation_count * rule_pct) % 100 = 50 => rule_based_count % 2 = 0

\* a finished call whose product count * percentage fell halfway between two
\* integers, with both counts positive
C7_Witness ==
    /\ pc = "done"
    /\ (variation_count * rule_pct) % 100 = 50
    /\ rule_based_count > 0
    /\ non_rule_count > 0

\* C8: what the selector returns has at most non_rule_count strings, none equal
\* to the seed after lower-casing, and no string too similar to an earlier one
C8_SelectorOutput ==
    tpc = "returned" =>
        /\ Len(non_rule_vars) <= non_rule_count
        /\ \A i \in 1..Len(non_rule_vars) : Lower(non_rule_vars[i]) # Lower(original_name)
        /\ \A i, j \in 1..Len(non_rule_vars) :
              i < j => ~CombinedAbove99(non_rule_vars[i], non_rule_vars[j])

\* the number of scored candidates in one combination of tiers
CellCount(pt, ot) ==
    Cardinality({k \in 1..Len(candidates_with_scores) :
        /\ candidates_with_scores[k].phonetic_tier = pt
        /\ candidates_with_scores[k].orthographic_tier = ot})

\* the number of returned strings in a tier of one axis
ReturnedPhonetic(tier) ==
    Cardinality({k \in 1..Len(non_rule_vars) :
        get_metaphone_match_score(original_name, non_rule_vars[k]) = tier})

ReturnedOrthographic(tier) ==
    Cardinality({k \in 1..Len(non_rule_vars) :
        get_levenshtein_tier(original_name, non_rule_vars[k]) = tier})

WithinOne(a, b) == a - b <= 1 /\ b - a <= 1

\* C9: when the de-duplicated pool has at least 10 * non_rule_count candidates,
\* as many in each combination of tiers, the returned strings of every
\* requested tier are within one of the target of that tier, on both axes
C9_Distribution ==
    (/\ tpc = "returned"
     /\ non_rule_count > 0
     /\ Len(candidates_with_scores) >= 10 * non_rule_count
     /\ \A pt \in Tiers, ot \in Tiers : CellCount(pt, ot) = CellCount("Light", "Light"))
    => \A t \in Tiers :
          /\ DistGet(EffectiveDist(phonetic_similarity), t) > 0
                => WithinOne(ReturnedPhonetic(t), phonetic_counts(t))
          /\ DistGet(EffectiveDist(orthographic_similarity), t) > 0
                => WithinOne(ReturnedOrthographic(t), orthographic_counts(t))

\* C10: each score gets one tier on each axis: Light from 0.80 (phonetic) and
\* 0.70 (orthographic) on, Medium from 0.60 and 0.50 on, Far below
C10_TierBoundaries ==
    pc = "classified" =>
        LET e == candidates_with_scores[1]
            p == e.phonetic_score
            o == e.orthographic_score
        IN  /\ e.phonetic_tier \in Tiers
            /\ e.phonetic_tier = "Light" <=> 100 * p.n >= 80 * p.d
            /\ e.phonetic_tier = "Medium" <=> (100 * p.n >= 60 * p.d /\ 100 * p.n < 80 * p.d)
            /\ e.phonetic_tier = "Far" <=> 100 * p.n < 60 * p.d
            /\ e.orthographic_tier \in Tiers
            /\ e.orthographic_tier = "Light" <=> 100 * o.n >= 70 * o.d
            /\ e.orthographic_tier = "Medium"
                  <=> (100 * o.n >= 50 * o.d /\ 100 * o.n < 70 * o.d)
            /\ e.orthographic_tier = "Far" <=> 100 * o.n < 50 * o.d

\* the score 0.80 classified: Light on both axes
C10_Witness ==
    /\ pc = "classified"
    /\ 100 * candidates_with_scores[1].phonetic_score.n
          = 80 * candidates_with_scores[1].phonetic_score.d
    /\ candidates_with_scores[1].phonetic_tier = "Light"
    /\ candidates_with_scores[1].orthographic_tier = "Light"

\* the seed has a character outside ASCII, so its script is not Latin
NonAsciiSeed == \E i \in 1..Len(original_name) : original_name[i] > 127

\* C11: for a seed whose script is not Latin no state of a call is inside the
\* tiered selector, and nothing of the selector's state is ever written
C11_NonLatinSkipsSelector ==
    NonAsciiSeed =>
        /\ pc # "tiered"
        /\ tpc = "idle"
        /\ candidate_pool = <<>>
        /\ candidates_with_scores = <<>>
        /\ selected = <<>>

\* a finished call for a CJK seed that asked for a distribution, with the
\* phonetic backend available and a positive non-rule count
C11_Witness ==
    /\ pc = "done"
    /\ NonAsciiSeed
    /\ non_rule_count > 0
    /\ jelly
    /\ phonetic_similarity.given
    /\ orthographic_similarity.given

\* the non-rule phase of the call is over
AfterNonRule == pc \in {"fallback", "manual", "finish", "done"}

\* a phonetic or an orthographic distribution was requested
DistributionRequested == phonetic_similarity.given \/ orthographic_similarity.given

\* the selector ran for N = non_rule_count: its first request is for 10 * N
SelectorRan ==
    /\ tpc = "returned"
    /\ pool_calls # <<>>
    /\ pool_calls[1] = 10 * non_rule_count

\* the plain sampling ran: one request for 3 * non_rule_count, no selector
PlainSamplingRan == tpc = "idle" /\ pool_calls = <<3 * non_rule_count>>

\* C12 as stated: for a Latin seed with a positive non-rule count the selector
\* runs whenever a distribution was requested, the plain sampling exactly when
\* none was
C12_SelectorWhenRequested ==
    (AfterNonRule /\ ~NonAsciiSeed /\ non_rule_count > 0) =>
        /\ DistributionRequested => SelectorRan
        /\ PlainSamplingRan <=> ~DistributionRequested

\* C12 amended: the selector runs whenever a distribution was requested and the
\* phonetic backend is available, the plain sampling exactly otherwise
C12_SelectorWhenRequestedAndAvailable ==
    (AfterNonRule /\ ~NonAsciiSeed /\ non_rule_count > 0) =>
        /\ (jelly /\ DistributionRequested) => SelectorRan
        /\ PlainSamplingRan <=> ~(jelly /\ DistributionRequested)

\* a finished call for a Latin seed that asked for a distribution without the
\* backend, and got the plain sampling
C12_Witness ==
    /\ pc = "done"
    /\ ~NonAsciiSeed
    /\ non_rule_count > 0
    /\ DistributionRequested
    /\ ~jelly
    /\ PlainSamplingRan

(***************************************************************************)
(* The scorers on their own: calls of the two scorers and of the           *)
(* uniqueness loop on chosen arguments, with other draws from the shared   *)
(* random source in between.  candidates_with_scores is the log of calls.  *)
(***************************************************************************)
\* the number of calls logged
MaxCalls == 3

\* "Annabella Dellarobbia Valladol": 30 characters
Seed30 == SubSeq(SeedLong, 1, 30)

\* "Annabella Dellarobbia Valladul": one substitution, the same three codes
Seed30u == SubSeq(SeedLong, 1, 28) \o <<117, 108>>

\* "Jo" against itself and against "oJ", the empty string and "Al Bo" against themselves
ScorePairs == {<<SeedJo, SeedJo>>, <<SeedJo, <<111, 74>>>>, <<<<>>, <<>>>>, <<SeedAlBo, SeedAlBo>>}

\* the already selected lists and the candidates of the uniqueness loop
UniqueChecks == {<<<<Seed30>>, Seed30u>>, <<<<SeedAlBo, SeedJo>>, SeedJo>>}

ScorerInit ==
    /\ original_name = <<>>
    /\ variation_count = 0
    /\ rule_pct = 0
    /\ rules = <<>>
    /\ phonetic_similarity = NoDist
    /\ orthographic_similarity = NoDist
    /\ jelly \in BOOLEAN
    /\ unidecode_ok = TRUE
    /\ salt \in 0..1
    /\ rng = [seed |-> 0, clean |-> FALSE]
    /\ pc = "scoring"
    /\ rule_based_count = 0
    /\ non_rule_count = 0
    /\ variations = <<>>
    /\ used_variations = {}
    /\ slot = 0
    /\ rule = ""
    /\ attempts = 0
    /\ max_attempts = 0
    /\ var = None
    /\ rule_attempts = <<>>
    /\ tpc = "idle"
    /\ candidate_pool = <<>>
    /\ candidates_with_scores = <<>>
    /\ selected = <<>>
    /\ used = {}
    /\ cursor = 0
    /\ non_rule_vars = <<>>
    /\ pool_calls = <<>>
    /\ result = <<>>
    /\ identity = <<>>
    /\ uav_seed_name = None
    /\ all_variations = <<>>
    /\ processed = 0
    /\ generated = <<>>

scorerFrame == <<inputVars, orchestratorVars, tpc, candidate_pool, selected, used, cursor, non_rule_vars, pool_calls>>

\* one call of calculate_phonetic_similarity_score: the weights it selected and
\* the score it returned are logged; the call leaves the random source reseeded
ScorePhonetic ==
    /\ pc = "scoring"
    /\ Len(candidates_with_scores) < MaxCalls
    /\ \E pair \in ScorePairs :
         /\ candidates_with_scores' =
                Append(candidates_with_scores,
                       [axis |-> "phonetic", original |-> pair[1], variation |-> pair[2],
                        weights |-> IF jelly THEN selected_weights(rng, pair[1]) ELSE None,
                        score |-> calculate_phonetic_similarity_score(pair[1], pair[2])])
         /\ rng' = IF jelly THEN Reseeded(pair[1]) ELSE rng
    /\ UNCHANGED <<scorerFrame, pc>>

\* one call of calculate_orthographic_similarity_score
ScoreOrthographic ==
    /\ pc = "scoring"
    /\ Len(candidates_with_scores) < MaxCalls
    /\ \E pair \in ScorePairs :
         candidates_with_scores' =
             Append(candidates_with_scores,
                    [axis |-> "orthographic", original |-> pair[1], variation |-> pair[2],
                     weights |-> None,
                     score |-> calculate_orthographic_similarity_score(pair[1], pair[2])])
    /\ UNCHANGED <<scorerFrame, pc, rng>>

\* one run of the is_unique loop of a candidate against a selected list
UniqueCheck ==
    /\ pc = "scoring"
    /\ Len(candidates_with_scores) < MaxCalls
    /\ \E check \in UniqueChecks :
         /\ candidates_with_scores' =
                Append(candidates_with_scores,
                       [axis |-> "unique", original |-> check[1], variation |-> check[2],
                        weights |-> None,
                        score |-> IsUniqueAgainst(check[1], check[2])])
         /\ rng' = AfterUniqueLoop(rng, check[1], check[2])
    /\ UNCHANGED <<scorerFrame, pc>>

\* any other draw from the shared random source between two calls
OtherDraw ==
    /\ pc = "scoring"
    /\ rng.clean
    /\ rng' = Drawn(rng)
    /\ UNCHANGED <<scorerFrame, pc, candidates_with_scores>>

ScorerNext == ScorePhonetic \/ ScoreOrthographic \/ UniqueCheck \/ OtherDraw

ScorerSpec == ScorerInit /\ [][ScorerNext]_vars

\* the calls logged on one axis
CallsOn(axis) == {i \in 1..Len(candidates_with_scores) : candidates_with_scores[i].axis = axis}

\* C14: two phonetic calls with the same first argument select the same
\* algorithms and normalized weights, and so return the same score for the
\* same second argument, whatever was called or drawn in between
C14_SameWeightsPerOriginal ==
    \A i, j \in CallsOn("phonetic") :
        candidates_with_scores[i].original = candidates_with_scores[j].original =>
            /\ candidates_with_scores[i].weights = candidates_with_scores[j].weights
            /\ candidates_with_scores[i].variation = candidates_with_scores[j].variation =>
                   candidates_with_scores[i].score = candidates_with_scores[j].score

\* two phonetic calls on "Jo" with a phonetic call on another name and a draw between them
C14_Witness ==
    /\ jelly
    /\ Len(candidates_with_scores) = 3
    /\ candidates_with_scores[1].axis = "phonetic" /\ candidates_with_scores[1].original = SeedJo
    /\ candidates_with_scores[2].axis = "phonetic" /\ candidates_with_scores[2].original = SeedAlBo
    /\ candidates_with_scores[3].axis = "phonetic" /\ candidates_with_scores[3].original = SeedJo
    /\ candidates_with_scores[3].weights # candidates_with_scores[2].weights
    /\ rng = Reseeded(SeedJo)

\* the step is one call of a scorer
ScorerCallStep ==
    /\ Len(candidates_with_scores') = Len(candidates_with_scores) + 1
    /\ candidates_with_scores'[Len(candidates_with_scores')].axis \in {"phonetic", "orthographic"}

\* C15: a call of either scorer has no side effect: in particular it leaves
\* the state of the shared random source as it found it
C15_ScorersLeaveRandomSource == [][ScorerCallStep => rng' = rng]_vars

\* C16: a string scored against itself gets 1.0 on both axes (the empty
\* string included on the orthographic axis), whether or not the phonetic
\* backend is available
C16_SelfScoreIsOne ==
    \A i \in CallsOn("phonetic") \cup CallsOn("orthographic") :
        candidates_with_scores[i].original = candidates_with_scores[i].variation =>
            candidates_with_scores[i].score.n = candidates_with_scores[i].score.d

\* 100 times ( 0.7 * p + 0.3 * o ), as a fraction
Combined100(p, o) == [n |-> 70 * p.n * o.d + 30 * o.n * p.d, d |-> p.d * o.d]

\* the combined similarity of the pair, from the two scores of the strings
CombinedOf(existing, candidate) ==
    Combined100(calculate_phonetic_similarity_score(existing, candidate),
                calculate_orthographic_similarity_score(existing, candidate))

StrictlyAbove99(c) == c.n > 99 * c.d

TooSimilar(existing, candidate) == StrictlyAbove99(CombinedOf(existing, candidate))

Exactly99(c) == c.n = 99 * c.d

\* 0.7 * phonetic + 0.3 * orthographic is exactly 0.99
ExactlyAtThreshold(existing, candidate) == Exactly99(CombinedOf(existing, candidate))

\* the call made last
LastCall == candidates_with_scores[Len(candidates_with_scores)]

\* C19: the run of the uniqueness loop just made rejected the candidate exactly
\* when 0.7 * phonetic + 0.3 * orthographic is strictly above 0.99 against some
\* element already selected; a combined similarity of exactly 0.99 passes
C19_RejectsStrictlyAbove ==
    (candidates_with_scores # <<>> /\ LastCall.axis = "unique") =>
        (~LastCall.score <=>
            \E k \in 1..Len(LastCall.original) : TooSimilar(LastCall.original[k], LastCall.variation))

\* a candidate exactly at 0.99 against the one selected element was found unique,
\* and a candidate equal to a selected element was rejected
C19_Witness ==
    /\ jelly
    /\ Len(candidates_with_scores) = 2
    /\ candidates_with_scores[1].axis = "unique"
    /\ candidates_with_scores[1].original = <<Seed30>>
    /\ ExactlyAtThreshold(Seed30, candidates_with_scores[1].variation)
    /\ candidates_with_scores[1].score
    /\ candidates_with_scores[2].axis = "unique"
    /\ ~candidates_with_scores[2].score

(***************************************************************************)
(* The rule engine on its own: one call of apply_rule_to_name on a chosen  *)
(* name and rule id.                                                       *)
(***************************************************************************)
\* space, "-", "A", "B", "a", "b", the Kelvin sign and a CJK character
OneChars == {32, 45, 65, 66, 97, 98, KELVIN, 26446}

RuleNames == {<<c>> : c \in OneChars} \cup {<<>>, SeedJo, SeedAlBo}

\* rule ids that are no key of rule_map
UnknownRules == {"", "nonexistent", "Delete_Random_Letter"}

RuleInit ==
    /\ original_name \in RuleNames
    /\ variation_count = 0
    /\ rule_pct = 0
    /\ rules = <<>>
    /\ phonetic_similarity = NoDist
    /\ orthographic_similarity = NoDist
    /\ jelly = TRUE
    /\ unidecode_ok = TRUE
    /\ salt = 0
    /\ rng = [seed |-> 0, clean |-> FALSE]
    /\ pc = "apply"
    /\ rule_based_count = 0
    /\ non_rule_count = 0
    /\ variations = <<>>
    /\ used_variations = {}
    /\ slot = 0
    /\ rule \in RuleCatalog \cup UnknownRules
    /\ attempts = 0
    /\ max_attempts = 0
    /\ var = None
    /\ rule_attempts = <<>>
    /\ tpc = "idle"
    /\ candidate_pool = <<>>
    /\ candidates_with_scores = <<>>
    /\ selected = <<>>
    /\ used = {}
    /\ cursor = 0
    /\ non_rule_vars = <<>>
    /\ pool_calls = <<>>
    /\ result = <<>>
    /\ identity = <<>>
    /\ uav_seed_name = None
    /\ all_variations = <<>>
    /\ processed = 0
    /\ generated = <<>>

\* var = apply_rule_to_name(original_name, rule), or the exception it raises
ApplyRule ==
    /\ pc = "apply"
    /\ \E v \in apply_rule_to_name(original_name, rule) :
         IF Raises(v)
         THEN /\ pc' = "raised"
              /\ UNCHANGED var
         ELSE /\ pc' = "applied"
              /\ var' = v
    /\ UNCHANGED <<inputVars, rng, rule_based_count, non_rule_count, variations, used_variations,
                   slot, rule, attempts, max_attempts, rule_attempts, selectorVars, non_rule_vars,
                   pool_calls, result>>

RuleNext == ApplyRule

RuleSpec == RuleInit /\ [][RuleNext]_vars

\* C17: a rule of the catalog, alias names included, applied to a string of
\* one character raises nothing and returns a string
C17_OneCharNeverRaises ==
    (rule \in RuleCatalog /\ Len(original_name) = 1 /\ pc # "apply") =>
        /\ pc = "applied"
        /\ var # None

\* C18: a rule id that is no key of the catalog returns the name unchanged
\* and raises nothing, for every name
C18_UnknownRuleIsNoOp ==
    (rule \notin RuleCatalog /\ pc # "apply") =>
        /\ pc = "applied"
        /\ var = original_name

\* "Al Bo" came back unchanged from a rule id that differs from a key only in case
C18_Witness ==
    /\ pc = "applied"
    /\ rule = "Delete_Random_Letter"
    /\ original_name = SeedAlBo
    /\ var = SeedAlBo

\* the tiers of a string against the seed
PhoneticTierOf(v) ==
    get_phonetic_tier_from_score(calculate_phonetic_similarity_score(original_name, v))

OrthographicTierOf(v) ==
    get_orthographic_tier_from_score(calculate_orthographic_similarity_score(original_name, v))

\* the strings accepted so far in the tier of c are fewer than the target of the tier
PhoneticBelowTarget(sel, c) ==
    Cardinality({k \in 1..Len(sel) : PhoneticTierOf(sel[k]) = PhoneticTierOf(c)})
        < phonetic_counts(PhoneticTierOf(c))

OrthographicBelowTarget(sel, c) ==
    Cardinality({k \in 1..Len(sel) : OrthographicTierOf(sel[k]) = OrthographicTierOf(c)})
        < orthographic_counts(OrthographicTierOf(c))

UniqueAmong(sel, c) == \A k \in 1..Len(sel) : ~TooSimilar(sel[k], c)

\* the acceptance condition of pass 1
Pass1Condition(sel, c) ==
    /\ Len(sel) < non_rule_count
    /\ UniqueAmong(sel, c)
    /\ PhoneticBelowTarget(sel, c) \/ OrthographicBelowTarget(sel, c)

\* C20: pass 1 appends the candidate it looks at exactly when fewer than N are
\* selected, the candidate is unique against the accepted ones, and its
\* phonetic tier or its orthographic tier is still below its target;
\* otherwise the selection stays as it is
C20_Pass1Acceptance ==
    [][(pc = "tiered" /\ tpc = "pass1" /\ cursor <= Len(candidates_with_scores)) =>
          IF Pass1Condition(selected, candidates_with_scores[cursor].candidate)
          THEN selected' = Append(selected, candidates_with_scores[cursor].candidate)
          ELSE selected' = selected]_vars

\* pass 1 has just accepted a candidate whose phonetic tier was already full,
\* for its orthographic tier alone
C20_Witness ==
    /\ pc = "tiered" /\ tpc = "pass1"
    /\ cursor > 1
    /\ selected # <<>>
    /\ selected[Len(selected)] = candidates_with_scores[cursor - 1].candidate
    /\ Pass1Condition(SubSeq(selected, 1, Len(selected) - 1), selected[Len(selected)])
    /\ ~PhoneticBelowTarget(SubSeq(selected, 1, Len(selected) - 1), selected[Len(selected)])

(***************************************************************************)
(* generate_variations of neurons/main/_index.py: the loop over the        *)
(* identities of the request, each identity calling the three generators,  *)
(* and the validation of the dictionary before it is returned.  An entry   *)
(* of the dictionary is [is_dict, variations]: is_dict for the entry of    *)
(* the UAV seed, {'variations': ..., 'uav': ...}, whose list is in its     *)
(* 'variations' field.                                                     *)
(***************************************************************************)
\* the largest variation_count asked of generate_variations
MaxVariationCount == 2

\* "Unknown"
Unknown == <<85, 110, 107, 110, 111, 119, 110>>

\* "1990-01-01"
DefaultDob == <<49, 57, 57, 48, 45, 48, 49, 45, 48, 49>>

\* "1985-07-04"
Dob1985 == <<49, 57, 56, 53, 45, 48, 55, 45, 48, 52>>

\* "Monaco"
Monaco == <<77, 111, 110, 97, 99, 111>>

\* identities with three fields, with the name alone, with no field at all,
\* and one whose name is the default name
IdentityLists ==
    {<<>>, <<<<SeedJo, Dob1985, Monaco>>>>, <<<<SeedA>>>>, <<<<>>>>,
     <<<<SeedJo, Dob1985, Monaco>>, <<SeedA>>>>,
     <<<<SeedJo, Dob1985, Monaco>>, <<SeedJo, Dob1985>>>>,
     <<<<>>, <<SeedJo, Dob1985, Monaco>>>>,
     <<<<Unknown, Dob1985>>, <<>>>>,
     <<<<SeedA>>, <<>>>>}

\* no UAV seed, or "JO"
UavSeedNames == {None, <<74, 79>>}

\* lines 95-97
IdentityName(id) == IF Len(id) > 0 THEN id[1] ELSE Unknown

IdentityDob(id) == IF Len(id) > 1 THEN id[2] ELSE DefaultDob

IdentityAddress(id) == IF Len(id) > 2 THEN id[3] ELSE Unknown

\* line 92
seed_names == {identity[k][1] : k \in {j \in 1..Len(identity) : Len(identity[j]) > 0}}

\* line 100
is_uav_seed(name) == IsTruthy(uav_seed_name) /\ Lower(name) = Lower(uav_seed_name)

\* str.strip()
RECURSIVE Strip(_)
Strip(s) ==
    IF s = <<>> THEN s
    ELSE IF s[1] = SPACE THEN Strip(Tail(s))
    ELSE IF s[Len(s)] = SPACE THEN Strip(SubSeq(s, 1, Len(s) - 1))
    ELSE s

\* a variation_count two above the number of fixed dates of
\* generate_dob_variations
FillCount == 13

\* how many items a generator hands back: every number up to one more than
\* asked for; for a request of FillCount or more none, two too few, or all
AnswerLengths(count) == IF count < FillCount THEN 0..(count + 1) ELSE {0, count - 2, count}

\* lists of every length in lengths, of v1 alone or of v1 and v2 in turn
AnswerLists(v1, v2, lengths) ==
    {[i \in 1..n |-> v1] : n \in lengths} \cup {[i \in 1..n |-> IF i % 2 = 1 THEN v1 ELSE v2] : n \in lengths}

\* what generate_name_variations_clean can hand back: any number of strings
NameAnswers(name, count) == AnswerLists(name \o <<120>>, name \o <<121>>, AnswerLengths(count))

\* str(i): the decimal digits of i
RECURSIVE Digits(_)
Digits(i) == IF i < 10 THEN <<48 + i>> ELSE Digits(i \div 10) \o <<48 + (i % 10)>>

\* the eleven fixed dates of generate_dob_variations: the base + 1, - 3, + 30,
\* + 90 and - 365 days, its year and month, the base - 1, + 3, - 30, - 90 and
\* + 365 days; the base is 1990-01-01 for a date that does not parse
DobTable(dob) ==
    IF dob = Dob1985
    THEN <<<<49, 57, 56, 53, 45, 48, 55, 45, 48, 53>>, <<49, 57, 56, 53, 45, 48, 55, 45, 48, 49>>,
           <<49, 57, 56, 53, 45, 48, 56, 45, 48, 51>>, <<49, 57, 56, 53, 45, 49, 48, 45, 48, 50>>,
           <<49, 57, 56, 52, 45, 48, 55, 45, 48, 52>>, <<49, 57, 56, 53, 45, 48, 55>>,
           <<49, 57, 56, 53, 45, 48, 55, 45, 48, 51>>, <<49, 57, 56, 53, 45, 48, 55, 45, 48, 55>>,
           <<49, 57, 56, 53, 45, 48, 54, 45, 48, 52>>, <<49, 57, 56, 53, 45, 48, 52, 45, 48, 53>>,
           <<49, 57, 56, 54, 45, 48, 55, 45, 48, 52>>>>
    ELSE <<<<49, 57, 57, 48, 45, 48, 49, 45, 48, 50>>, <<49, 57, 56, 57, 45, 49, 50, 45, 50, 57>>,
           <<49, 57, 57, 48, 45, 48, 49, 45, 51, 49>>, <<49, 57, 57, 48, 45, 48, 52, 45, 48, 49>>,
           <<49, 57, 56, 57, 45, 48, 49, 45, 48, 49>>, <<49, 57, 57, 48, 45, 48, 49>>,
           <<49, 57, 56, 57, 45, 49, 50, 45, 51, 49>>, <<49, 57, 57, 48, 45, 48, 49, 45, 48, 52>>,
           <<49, 57, 56, 57, 45, 49, 50, 45, 48, 50>>, <<49, 57, 56, 57, 45, 49, 48, 45, 48, 51>>,
           <<49, 57, 57, 49, 45, 48, 49, 45, 48, 49>>>>

\* two of the dates random.randint(-365, 365) can add: the base + 3 days,
\* which the table holds already, and the base + 7 days
DobFillDates(dob) ==
    IF dob = Dob1985
    THEN {<<49, 57, 56, 53, 45, 48, 55, 45, 48, 55>>, <<49, 57, 56, 53, 45, 48, 55, 45, 49, 49>>}
    ELSE {<<49, 57, 57, 48, 45, 48, 49, 45, 48, 52>>, <<49, 57, 57, 48, 45, 48, 49, 45, 48, 56>>}

\* the lists "while len(variations) < count" can append to the fixed dates
DobFills(dob, count) ==
    IF count <= Len(DobTable(dob)) THEN {<<>>}
    ELSE [1..(count - Len(DobTable(dob))) -> DobFillDates(dob)]

\* the lists generate_dob_variations can return: variations[:count]
generate_dob_variations(dob, count) ==
    {SubSeq(DobTable(dob) \o fill, 1, count) : fill \in DobFills(dob, count)}

\* " R"
StreetR == <<32, 82>>

\* "1 R", "2 R", ... : n addresses that differ
NumberedAddresses(n) == [k \in 1..n |-> Digits(k) \o StreetR]

\* what generate_address_variations can hand back: "1 R" and "1 r " in any
\* number, or addresses that differ
AddressAnswers(address, count) ==
    AnswerLists(<<49, 32, 82>>, <<49, 32, 114, 32>>, AnswerLengths(count))
        \cup {NumberedAddresses(n) : n \in AnswerLengths(count)}

\* the padding loops left out
PadToUnpadded(list, value, count) == list

\* a list padded with its own last element, the value only for an empty list
PadToLast(list, value, count) ==
    list \o [i \in 1..(count - Len(list)) |-> IF list = <<>> THEN value ELSE list[Len(list)]]

\* lines 126-132: while len(list) < count: list.append(value)
PadTo(list, value, count) ==
    list \o [i \in 1..(count - Len(list)) |-> value]

\* lines 135-137: list[:count]
TrimTo(list, count) == SubSeq(list, 1, Min2(Len(list), count))

\* lines 151-155
ComboKey(name_var, dob_var, addr_var) == <<Strip(Lower(name_var)), Strip(dob_var), Strip(Lower(addr_var))>>

\* lines 159-170: the retry loop from attempt on, cur the triple it holds
RECURSIVE RetryLoop(_, _, _, _, _, _, _)
RetryLoop(name_vars, dob_vars, address_vars, seen, i, attempt, cur) ==
    IF ComboKey(cur[1], cur[2], cur[3]) \notin seen \/ attempt >= 100 THEN cur
    ELSE LET idx == ((i + attempt) % variation_count) + 1
         IN  RetryLoop(name_vars, dob_vars, address_vars, seen, i, attempt + 1,
                       <<name_vars[idx], dob_vars[idx], address_vars[idx]>>)

\* lines 173-175: a triple whose key is still a seen one gets " #UNQ{i}" on its address
MakeUnique(cur, seen, i) ==
    IF ComboKey(cur[1], cur[2], cur[3]) \in seen
    THEN <<cur[1], cur[2], cur[3] \o <<32, 35, 85, 78, 81>> \o Digits(i)>>
    ELSE cur

\* lines 141-186: the combination loop from i on; a list too short for
\* name_vars[i] ends it with IndexError
RECURSIVE Combine(_, _, _, _, _, _)
Combine(name_vars, dob_vars, address_vars, combined, seen, i) ==
    IF i >= variation_count
    THEN [raised |-> FALSE, list |-> SubSeq(combined, 1, Min2(Len(combined), variation_count))]
    ELSE IF i + 1 > Len(name_vars) \/ i + 1 > Len(dob_vars) \/ i + 1 > Len(address_vars)
    THEN [raised |-> TRUE, list |-> <<>>]
    ELSE LET tried == RetryLoop(name_vars, dob_vars, address_vars, seen, i, 0,
                                <<name_vars[i + 1], dob_vars[i + 1], address_vars[i + 1]>>)
             triple == MakeUnique(tried, seen, i)
         IN  Combine(name_vars, dob_vars, address_vars, Append(combined, triple),
                     seen \cup {ComboKey(triple[1], triple[2], triple[3])}, i + 1)

\* lines 121-186 on the answers of the three generators
Combined(name, dob, address, name_vars, dob_vars, address_vars) ==
    Combine(TrimTo(PadTo(name_vars, name, variation_count), variation_count),
            TrimTo(PadTo(dob_vars, dob, variation_count), variation_count),
            TrimTo(PadTo(address_vars, address, variation_count), variation_count),
            <<>>, {}, 0)

\* lines 188-203
Entry(name, combined) == [is_dict |-> is_uav_seed(name), variations |-> combined]

IndexInit ==
    /\ original_name = <<>>
    /\ variation_count \in 0..MaxVariationCount
    /\ rule_pct = 0
    /\ rules = <<>>
    /\ phonetic_similarity = NoDist
    /\ orthographic_similarity = NoDist
    /\ jelly = TRUE
    /\ unidecode_ok = TRUE
    /\ salt = 0
    /\ rng = [seed |-> 0, clean |-> FALSE]
    /\ pc = "identities"
    /\ rule_based_count = 0
    /\ non_rule_count = 0
    /\ variations = <<>>
    /\ used_variations = {}
    /\ slot = 0
    /\ rule = ""
    /\ attempts = 0
    /\ max_attempts = 0
    /\ var = None
    /\ rule_attempts = <<>>
    /\ tpc = "idle"
    /\ candidate_pool = <<>>
    /\ candidates_with_scores = <<>>
    /\ selected = <<>>
    /\ used = {}
    /\ cursor = 0
    /\ non_rule_vars = <<>>
    /\ pool_calls = <<>>
    /\ result = <<>>
    /\ identity \in IdentityLists
    /\ uav_seed_name \in UavSeedNames
    /\ all_variations = <<>>
    /\ processed = 0
    /\ generated = <<>>

indexFrame == <<original_name, variation_count, rule_pct, rules, phonetic_similarity, orthographic_similarity, jelly, unidecode_ok, salt, orchestratorVars, selectorVars, non_rule_vars, pool_calls, identity, uav_seed_name>>

\* one iteration of "for identity in synapse.identity" (lines 94-203)
ProcessIdentity ==
    /\ pc = "identities"
    /\ processed < Len(identity)
    /\ LET id == identity[processed + 1]
           name == IdentityName(id)
           dob == IdentityDob(id)
           address == IdentityAddress(id)
       IN  \E name_vars \in NameAnswers(name, variation_count),
              dob_vars \in generate_dob_variations(dob, variation_count),
              address_vars \in AddressAnswers(address, variation_count) :
             LET combined == Combined(name, dob, address, name_vars, dob_vars,
                                      address_vars)
             IN  IF combined.raised
                 THEN /\ pc' = "raised"
                      /\ UNCHANGED <<all_variations, processed, generated>>
                 ELSE /\ all_variations' = (name :> Entry(name, combined.list)) @@ all_variations
                      /\ processed' = processed + 1
                      /\ generated' = [name |-> name_vars, dob |-> dob_vars,
                                       address |-> address_vars]
                      /\ UNCHANGED pc
    /\ rng' = Drawn(rng)
    /\ UNCHANGED indexFrame

\* line 217
extra_names(output_names) == output_names \ seed_names

\* lines 239-242: a list that is too short and not empty is padded with its last triple
PadWithLast(var_list, count) == var_list \o [i \in 1..(count - Len(var_list)) |-> var_list[Len(var_list)]]

\* line 245: next(id for id in synapse.identity if id[0] == name) from identity k
\* on; id[0] of an identity without fields is an IndexError
RECURSIVE DefaultIdentity(_, _)
DefaultIdentity(name, k) ==
    IF k > Len(identity) THEN [raised |-> FALSE, found |-> FALSE, id |-> <<>>]
    ELSE IF Len(identity[k]) = 0 THEN [raised |-> TRUE, found |-> FALSE, id |-> <<>>]
    ELSE IF identity[k][1] = name THEN [raised |-> FALSE, found |-> TRUE, id |-> identity[k]]
    ELSE DefaultIdentity(name, k + 1)

\* lines 247-254: the triple an empty list is filled with
DefaultTriple(name) ==
    LET d == DefaultIdentity(name, 1)
    IN  IF d.found THEN <<IdentityName(d.id), IdentityDob(d.id), IdentityAddress(d.id)>>
        ELSE <<name, DefaultDob, Unknown>>

\* lines 232-257: the list of an entry brought to the expected count
FixCount(name, var_list) ==
    IF Len(var_list) = variation_count THEN var_list
    ELSE IF Len(var_list) > variation_count THEN SubSeq(var_list, 1, variation_count)
    ELSE IF var_list # <<>> THEN PadWithLast(var_list, variation_count)
    ELSE [i \in 1..variation_count |-> DefaultTriple(name)]

\* an entry that needs the default triple while an identity without fields is met first
FixRaises(d) ==
    \E name \in DOMAIN d :
        /\ d[name].variations = <<>>
        /\ variation_count > 0
        /\ DefaultIdentity(name, 1).raised

\* lines 208-222: [] for the missing names, the extra names deleted
Completed(d) ==
    [name \in (DOMAIN d \cup seed_names) \ extra_names(DOMAIN d) |->
        IF name \in DOMAIN d THEN d[name] ELSE [is_dict |-> FALSE, variations |-> <<>>]]

\* lines 206-275: the validation of the dictionary, and the return
ValidateAndReturn ==
    /\ pc = "identities"
    /\ processed = Len(identity)
    /\ LET d == Completed(all_variations)
       IN  IF FixRaises(d)
           THEN /\ pc' = "raised"
                /\ UNCHANGED all_variations
           ELSE /\ pc' = "returned"
                /\ all_variations' =
                       [name \in DOMAIN d |->
                           [is_dict |-> d[name].is_dict,
                            variations |-> FixCount(name, d[name].variations)]]
    /\ UNCHANGED <<indexFrame, rng, processed, generated>>

IndexNext == ProcessIdentity \/ ValidateAndReturn

IndexSpec == IndexInit /\ [][IndexNext]_vars

\* C13: generate_variations returns, and what it returns has an entry for
\* every seed name of the identity list and for no other key, each holding
\* exactly variation_count triples [name, dob, address] (the entry of the UAV
\* seed in its 'variations' field), however many items the generators gave
C13_ExactEntries ==
    /\ pc # "raised"
    /\ pc = "returned" =>
          /\ DOMAIN all_variations = {identity[k][1] : k \in {j \in 1..Len(identity) : identity[j] # <<>>}}
          /\ \A name \in DOMAIN all_variations :
                /\ Len(all_variations[name].variations) = variation_count
                /\ \A i \in 1..variation_count : Len(all_variations[name].variations[i]) = 3
                /\ all_variations[name].is_dict <=>
                       (uav_seed_name # None /\ Lower(name) = Lower(uav_seed_name))

\* a returned dictionary for two identities, the first without fields and the
\* second the UAV seed, after the name generator gave too few strings and the
\* address generator too many
C13_Witness ==
    /\ pc = "returned"
    /\ variation_count = MaxVariationCount
    /\ Len(identity) = 2
    /\ identity[1] = <<>>
    /\ DOMAIN all_variations = {SeedJo}
    /\ all_variations[SeedJo].is_dict
    /\ all_variations[SeedJo].variations[MaxVariationCount][1] = SeedJo
    /\ all_variations[SeedJo].variations[MaxVariationCount][3] # Monaco

\* both tiers of c are still below their targets
NeededOnBothAxes(sel, c) == PhoneticBelowTarget(sel, c) /\ OrthographicBelowTarget(sel, c)

\* a candidate pass 1 has not looked at yet that is unique against the
\* selection and whose tiers are both still needed
BothAxesCandidateWaits ==
    \E k \in (cursor + 1)..Len(candidates_with_scores) :
        /\ UniqueAmong(selected, candidates_with_scores[k].candidate)
        /\ NeededOnBothAxes(selected, candidates_with_scores[k].candidate)

\* C21: pass 1 does not accept a candidate whose tier is still needed on one
\* axis only while a unique candidate it has not visited yet is still needed
\* on both axes
C21_BothAxesFirst ==
    [][(/\ pc = "tiered" /\ tpc = "pass1"
        /\ cursor <= Len(candidates_with_scores)
        /\ selected' # selected
        /\ ~NeededOnBothAxes(selected, candidates_with_scores[cursor].candidate))
          => ~BothAxesCandidateWaits]_vars

\* the only rule supplied has failed more often than the retry budget of 5
SingleRuleExhausted ==
    /\ Len(rules) = 1
    /\ rules[1] \in DOMAIN rule_attempts
    /\ rule_attempts[rules[1]] > 5

\* C22: once the single rule supplied is exhausted, no rule-based slot of the
\* same call accepts a variation from the rule engine any more
C22_ExhaustedRuleAcceptsNothing ==
    [][(pc = "rule_accept" /\ SingleRuleExhausted) => variations' = variations]_vars

\* the rule phase of generate_name_variations_clean is running
InRulePhase == pc \in {"rule_loop", "rule_while", "rule_accept"}

\* C23: every variation accepted in the rule phase has a combined similarity
\* of at most 0.99 to every rule-based variation accepted before it and to
\* the seed itself
C23_RuleVariationsUnique ==
    InRulePhase =>
        \A k \in 1..Len(variations) :
            /\ ~CombinedAbove99(original_name, variations[k])
            /\ \A j \in 1..(k - 1) : ~CombinedAbove99(variations[j], variations[k])

\* the most pool requests one selector call makes: the first pool, the
\* request after an empty pre-filter result, and the one of pass 3
MaxSelectorPoolCalls == 3

\* every element of sel after position from is unique against the elements
\* before it
UniqueSince(sel, from) ==
    \A k \in (from + 1)..Len(sel) : IsUniqueAgainst(SubSeq(sel, 1, k - 1), sel[k])

\* C24: pass 3 asks the pool source only when fewer than N candidates are
\* selected, asks once and for at least 20 times the shortfall, accepts only
\* candidates unique against the selection, and one selector call makes a
\* bounded number of pool requests
C24_Pass3Regeneration ==
    [][(pc = "tiered" /\ tpc = "pass3") =>
          /\ pool_calls' # pool_calls =>
                 /\ Len(selected) < non_rule_count
                 /\ Len(pool_calls') = Len(pool_calls) + 1
                 /\ pool_calls'[Len(pool_calls')] >= 20 * (non_rule_count - Len(selected))
          /\ pool_calls' = pool_calls => selected' = selected
          /\ SubSeq(selected', 1, Len(selected)) = selected
          /\ UniqueSince(selected', Len(selected))
          /\ Len(pool_calls') <= MaxSelectorPoolCalls]_vars

\* pass 3 has asked for a pool and taken a candidate the first pool lacked
C24_Witness ==
    /\ pc = "tiered" /\ tpc = "return"
    /\ Len(pool_calls) >= 2
    /\ \E k \in 1..Len(selected) :
           \A i \in 1..Len(candidates_with_scores) :
               candidates_with_scores[i].candidate # selected[k]

(***************************************************************************)
(* The per-tier targets of generate_tiered_name_variations (lines 399-412) *)
(* for one request: non_rule_count and the two distributions are drawn,    *)
(* the targets are computed into result.                                   *)
(***************************************************************************)

\* the largest non_rule_count of a target computation
MaxTargetN == 10

\* distributions a caller or parse_query_template can hand over: none, an
\* empty one, complete ones, ones that leave tiers out, and one whose
\* fractions add up to 2.0
TargetDists ==
    {NoDist,
     Dist(<<>>),
     Dist([t \in {"Medium"} |-> 100]),
     Dist([Light |-> 20, Medium |-> 50, Far |-> 30]),
     Dist([Light |-> 70, Medium |-> 30]),
     Dist([t \in {"Far"} |-> 33]),
     Dist([Light |-> 0, Medium |-> 0, Far |-> 0]),
     Dist([Light |-> 100, Medium |-> 100])}

TargetInit ==
    /\ original_name = SeedJo
    /\ variation_count = 0
    /\ rule_pct = 0
    /\ rules = <<>>
    /\ phonetic_similarity \in TargetDists
    /\ orthographic_similarity \in TargetDists
    /\ jelly = TRUE
    /\ unidecode_ok = TRUE
    /\ salt = 0
    /\ rng = [seed |-> 0, clean |-> FALSE]
    /\ pc = "targets"
    /\ rule_based_count = 0
    /\ non_rule_count \in 0..MaxTargetN
    /\ variations = <<>>
    /\ used_variations = {}
    /\ slot = 0
    /\ rule = ""
    /\ attempts = 0
    /\ max_attempts = 0
    /\ var = None
    /\ rule_attempts = <<>>
    /\ tpc = "idle"
    /\ candidate_pool = <<>>
    /\ candidates_with_scores = <<>>
    /\ selected = <<>>
    /\ used = {}
    /\ cursor = 0
    /\ non_rule_vars = <<>>
    /\ pool_calls = <<>>
    /\ result = <<>>
    /\ identity = <<>>
    /\ uav_seed_name = None
    /\ all_variations = <<>>
    /\ processed = 0
    /\ generated = <<>>

\* lines 405-412: the two dictionaries of targets
ComputeTargets ==
    /\ pc = "targets"
    /\ result' = [phonetic |-> [tier \in Tiers |-> phonetic_counts(tier)],
                  orthographic |-> [tier \in Tiers |-> orthographic_counts(tier)]]
    /\ pc' = "counted"
    /\ UNCHANGED <<inputVars, rng, rule_based_count, non_rule_count, variations, used_variations,
                   slot, rule, attempts, max_attempts, var, rule_attempts, selectorVars,
                   non_rule_vars, pool_calls>>

TargetNext == ComputeTargets

TargetSpec == TargetInit /\ [][TargetNext]_vars

\* the fraction, in percent, the request gives a tier: the distribution's
\* entry, 0 for a tier it leaves out, and all of it on Medium when the
\* distribution is absent or empty
RequestedPercent(dist, tier) ==
    IF dist.given /\ DOMAIN dist.d # {}
    THEN IF tier \in DOMAIN dist.d THEN dist.d[tier] ELSE 0
    ELSE IF tier = "Medium" THEN 100 ELSE 0

\* t is the integer part of non_rule_count times the requested fraction
IsFloorOfShare(t, dist, tier) ==
    /\ 100 * t <= non_rule_count * RequestedPercent(dist, tier)
    /\ non_rule_count * RequestedPercent(dist, tier) < 100 * (t + 1)

TargetsAreFloors ==
    \A tier \in Tiers :
        /\ IsFloorOfShare(result.phonetic[tier], phonetic_similarity, tier)
        /\ IsFloorOfShare(result.orthographic[tier], orthographic_similarity, tier)

TargetSum(counts) == counts["Light"] + counts["Medium"] + counts["Far"]

PercentSum(dist) ==
    RequestedPercent(dist, "Light") + RequestedPercent(dist, "Medium")
        + RequestedPercent(dist, "Far")

\* C25 as stated: every target is floor(N * distribution[tier]), 0 for a
\* missing tier, Medium 1.0 for an absent or empty distribution, and the
\* targets of each axis sum to at most N
C25_TargetsSumToAtMostN ==
    pc = "counted" =>
        /\ TargetsAreFloors
        /\ TargetSum(result.phonetic) <= non_rule_count
        /\ TargetSum(result.orthographic) <= non_rule_count

\* C25 amended: every target is floor(N * distribution[tier]), 0 for a
\* missing tier, Medium 1.0 for an absent or empty distribution; the targets
\* of an axis sum to at most N when the fractions of its distribution sum to
\* at most 1
C25_TargetsAreFloors ==
    pc = "counted" =>
        /\ TargetsAreFloors
        /\ PercentSum(phonetic_similarity) <= 100 =>
               TargetSum(result.phonetic) <= non_rule_count
        /\ PercentSum(orthographic_similarity) <= 100 =>
               TargetSum(result.orthographic) <= non_rule_count

\* seven candidates at 20/50/30 percent give targets 1, 3 and 2, and the
\* axis without a distribution puts all seven on Medium
C25_Witness ==
    /\ pc = "counted"
    /\ non_rule_count = 7
    /\ phonetic_similarity = Dist([Light |-> 20, Medium |-> 50, Far |-> 30])
    /\ result.phonetic = [Light |-> 1, Medium |-> 3, Far |-> 2]
    /\ orthographic_similarity = NoDist
    /\ result.orthographic = [Light |-> 0, Medium |-> 7, Far |-> 0]

(***************************************************************************)
(* generate_variations for one identity and a variation_count above the    *)
(* eleven fixed dates of generate_dob_variations, where the dates it adds  *)
(* at random can repeat a date of the list.                                *)
(***************************************************************************)

\* "8 R #UNQ12": an address that ends like the marker of line 175
MarkedAddress == <<56, 32, 82, 32, 35, 85, 78, 81, 49, 50>>

FillIdentityLists ==
    {<<<<SeedJo, DefaultDob, MarkedAddress>>>>, <<<<SeedJo, Dob1985, Monaco>>>>}

FillInit ==
    /\ original_name = <<>>
    /\ variation_count = FillCount
    /\ rule_pct = 0
    /\ rules = <<>>
    /\ phonetic_similarity = NoDist
    /\ orthographic_similarity = NoDist
    /\ jelly = TRUE
    /\ unidecode_ok = TRUE
    /\ salt = 0
    /\ rng = [seed |-> 0, clean |-> FALSE]
    /\ pc = "identities"
    /\ rule_based_count = 0
    /\ non_rule_count = 0
    /\ variations = <<>>
    /\ used_variations = {}
    /\ slot = 0
    /\ rule = ""
    /\ attempts = 0
    /\ max_attempts = 0
    /\ var = None
    /\ rule_attempts = <<>>
    /\ tpc = "idle"
    /\ candidate_pool = <<>>
    /\ candidates_with_scores = <<>>
    /\ selected = <<>>
    /\ used = {}
    /\ cursor = 0
    /\ non_rule_vars = <<>>
    /\ pool_calls = <<>>
    /\ result = <<>>
    /\ identity \in FillIdentityLists
    /\ uav_seed_name = None
    /\ all_variations = <<>>
    /\ processed = 0
    /\ generated = <<>>

FillSpec == FillInit /\ [][IndexNext]_vars

\* no two triples of the list have the same normalized key
DistinctKeys(var_list) ==
    \A i, j \in 1..Len(var_list) :
        i < j => ComboKey(var_list[i][1], var_list[i][2], var_list[i][3])
                     # ComboKey(var_list[j][1], var_list[j][2], var_list[j][3])

\* C26: in the list of triples built for a seed no two triples have the same
\* normalized key (lower-cased stripped name, stripped dob, lower-cased
\* stripped address), whatever the name, dob and address lists hold
C26_NoDuplicateKeys ==
    \A name \in DOMAIN all_variations : DistinctKeys(all_variations[name].variations)

\* C27: at every point of a call of generate_name_variations_clean the
\* accumulated list holds at most total_count variations, so that the
\* truncation at the return removes nothing
C27_NeverAboveTotal ==
    /\ Len(variations) <= variation_count
    /\ pc = "done" => result = variations

\* a finished call with a full list, whose merge loop stopped at the length
\* test before a candidate that was still new
C27_Witness ==
    /\ pc = "done"
    /\ variation_count > 0
    /\ Len(result) = variation_count
    /\ \E k \in 1..Len(non_rule_vars) : Lower(non_rule_vars[k]) \notin used_variations

\* the identity generate_variations processed last, and the list built for it
LastIdentity == identity[processed]

LastList == all_variations[IdentityName(LastIdentity)].variations

LastListBuilt ==
    /\ processed > 0
    /\ pc # "raised"
    /\ IdentityName(LastIdentity) \in DOMAIN all_variations

\* the slots the name generator left without a name
MissingSlots == (Len(generated.name) + 1)..variation_count

\* the normalized key of slot i as the padded lists give it: the seed name
\* with the dob and the address of the slot
PaddedKey(i) ==
    ComboKey(IdentityName(LastIdentity),
             TrimTo(PadTo(generated.dob, IdentityDob(LastIdentity), variation_count),
                    variation_count)[i],
             TrimTo(PadTo(generated.address, IdentityAddress(LastIdentity), variation_count),
                    variation_count)[i])

\* the normalized keys of the triples before slot i
EarlierKeys(var_list, i) ==
    {ComboKey(var_list[j][1], var_list[j][2], var_list[j][3]) : j \in 1..(i - 1)}

C29_PreFilterKeepsFirst ==
    [][(pc = "tiered" /\ tpc = "prepare") =>
          /\ candidate_pool # <<>>
          /\ candidate_pool' # <<>>
          /\ candidate_pool'[1] = candidate_pool[1]
          /\ pool_calls' = pool_calls]_vars

\* the pre-filter has run on a pool of the long seed and dropped the second
\* of two candidates that are one letter apart, the first candidate kept
C29_Witness ==
    /\ pc = "tiered" /\ tpc = "pass1" /\ cursor = 1
    /\ original_name = SeedLong
    /\ candidate_pool # <<>>
    /\ candidate_pool[1] = Typo1(SeedLong)
    /\ \A k \in 1..Len(candidate_pool) : candidate_pool[k] # Typo2(SeedLong)
    /\ Len(pool_calls) = 1

(***************************************************************************)
(* Two runs of generate_tiered_name_variations in one process, for the     *)
(* same seed: each starts with the random source in some state and goes    *)
(* up to the end of pass 2; result keeps what the first run made.          *)
(***************************************************************************)

\* the largest N of the two runs
MaxTwinN == 2

\* states of the random source at the start of a run: after some draws, and
\* right after a phonetic score of "a"
TwinRngStates == {[seed |-> 0, clean |-> FALSE], Reseeded(SeedA)}

TwinInit ==
    /\ original_name \in {SeedJo, SeedAlBo}
    /\ variation_count \in 1..MaxTwinN
    /\ rule_pct = 0
    /\ rules = <<>>
    /\ phonetic_similarity \in PhoneticDists
    /\ orthographic_similarity \in OrthographicDists
    /\ jelly \in BOOLEAN
    /\ unidecode_ok = TRUE
    /\ salt \in 0..(Len(HashVals) - 1)
    /\ rng \in TwinRngStates
    /\ pc = "tiered"
    /\ rule_based_count = 0
    /\ non_rule_count = variation_count
    /\ variations = <<>>
    /\ used_variations = {}
    /\ slot = 0
    /\ rule = ""
    /\ attempts = 0
    /\ max_attempts = 0
    /\ var = None
    /\ rule_attempts = <<>>
    /\ tpc = "pool"
    /\ candidate_pool = <<>>
    /\ candidates_with_scores = <<>>
    /\ selected = <<>>
    /\ used = {}
    /\ cursor = 0
    /\ non_rule_vars = <<>>
    /\ pool_calls = <<>>
    /\ result = <<>>
    /\ identity = <<>>
    /\ uav_seed_name = None
    /\ all_variations = <<>>
    /\ processed = 0
    /\ generated = <<>>

\* the first run is at the end of pass 2: its shuffled list and its selection
\* are kept, and the second call starts with the random source in any state
SecondRun ==
    /\ pc = "tiered" /\ tpc = "pass3"
    /\ result = <<>>
    /\ result' = <<[pool |-> candidate_pool, order |-> candidates_with_scores,
                    selected |-> selected]>>
    /\ rng' \in TwinRngStates
    /\ tpc' = "pool"
    /\ candidate_pool' = <<>>
    /\ candidates_with_scores' = <<>>
    /\ selected' = <<>>
    /\ used' = {}
    /\ cursor' = 0
    /\ UNCHANGED <<inputVars, pc, rule_based_count, non_rule_count, variations,
                   used_variations, slot, rule, attempts, max_attempts, var, rule_attempts,
                   non_rule_vars, pool_calls>>

TwinNext == TieredPool \/ TieredPrepare \/ TieredPass1 \/ TieredPass2 \/ SecondRun

TwinSpec == TwinInit /\ [][TwinNext]_vars

\* the second run is at the end of pass 2 and had the candidate pool of the first
BothRunsSamePool ==
    /\ pc = "tiered" /\ tpc = "pass3"
    /\ result # <<>>
    /\ candidate_pool = result[1].pool

SameOrderAndSelection ==
    /\ candidates_with_scores = result[1].order
    /\ selected = result[1].selected

====
